---- MODULE Spec2Model ----
(***************************************************************************)
(* Esplora testnet client (esplora-client.js, check-payments.js).          *)
(*                                                                         *)
(* The module models the retry loop fetchWithRetry step by step (one       *)
(* action per suspension point of the async function), the block           *)
(* transaction pager getBlockTxs, and the two command line flows that are  *)
(* built on them.  Every asynchronous call of fetchWithRetry is one entry  *)
(* of the variable calls; the function that awaits it reads its outcome.   *)
(***************************************************************************)
EXTENDS Integers, Sequences, FiniteSets, TLC

VARIABLES calls, up, pg, chain, pay, calc, secure, arr, mp

vars == <<calls, up, pg, chain, pay, calc, secure, arr, mp>>

\* the state of the two scripts
clients == <<calls, up, pg, chain, pay>>

\* the state no step of the two scripts touches
rest == <<calc, secure, arr, mp>>

\* the state the functions applied on their own leave alone
notCalc == <<clients, secure, arr, mp>>

\* the state a transaction to SecureStorage leaves alone
notSecure == <<clients, calc, arr, mp>>

\* the state a transaction to StorageArray leaves alone
notArr == <<clients, calc, secure, mp>>

\* the state a transaction to StorageMapping leaves alone
notMapping == <<clients, calc, secure, arr>>

(***************************************************************************)
(* Program constants.                                                      *)
(***************************************************************************)
DEFAULT_RETRIES == 3

DEFAULT_TIMEOUT == 15000

PAGE_SIZE == 25

BACKOFF_BASE == 200

(***************************************************************************)
(* Bounds of the model.                                                    *)
(***************************************************************************)
\* retry budgets explored by a direct call of fetchWithRetry: 1..MaxRetries
MaxRetries == 3

\* pages of one getBlockTxs call whose contents are recorded; a call that
\* goes on beyond them keeps its control state only (pg.over)
MaxPages == 4

\* the longest address page (confirmed or mempool) the upstream sends
MaxAddrTxs == 2

(***************************************************************************)
(* HTTP: what one attempt can end with.                                    *)
(***************************************************************************)
\* status codes the upstream answers with: a 2xx, a non-2xx below 400, a 4xx
Statuses == {200, 304, 404}

NoStatus == 0

\* an Error object: err.name, err.status (0 when not set) and, as the
\* identity of the object, the attempt whose catch block received it
Error(name, status, at) == [name |-> name, status |-> status, at |-> at]

NoErr == Error("none", NoStatus, 0)

\* res.ok
IsOkMutant(status) == status >= 200 /\ status <= 399

IsOk(status) == status >= 200 /\ status <= 299

\* Math.pow(2, n)
RECURSIVE Pow2(_)
Pow2(n) == IF n <= 0 THEN 1 ELSE 2 * Pow2(n - 1)

\* const backoff = 200 * Math.pow(2, attempt - 1)
BackoffMutant(attempt) == BACKOFF_BASE * Pow2(attempt)

Backoff(attempt) == BACKOFF_BASE * Pow2(attempt - 1)

\* if (attempt >= retries) ... throw err
ExhaustedMutant(attempt, retries) == attempt > retries

Exhausted(attempt, retries) == attempt >= retries

(***************************************************************************)
(* One call of fetchWithRetry.                                             *)
(*   pc       "idle" (no call), "inflight" (awaiting fetch), "sleeping"    *)
(*            (awaiting the backoff timer), "returned", "threw"            *)
(*   attempt  the local counter                                            *)
(*   timer    the attempt whose abort timer is armed, 0 when none is       *)
(*   status   the status of the Response the call returned                 *)
(*   err      the error the call threw                                     *)
(*   log      history: the attempts issued and the sleeps taken, in order  *)
(*   seen     history: what the upstream did to each attempt, in order     *)
(*   outs     history: the error each failed attempt was caught with       *)
(***************************************************************************)
CallIds ==
    {"direct", "getBlockTxs", "getTipHeight", "getTipHash", "getBlockMeta",
     "getAddressTxs", "getAddressMempoolTxs"}

\* a url is an endpoint and, for the paged endpoint, the offset in the path
NoOffset == -1

Url(ep, off) == [ep |-> ep, off |-> off]

IdleCall ==
    [pc |-> "idle", url |-> Url("", NoOffset), retries |-> 0, attempt |-> 0, timer |-> 0,
     status |-> NoStatus, err |-> NoErr, log |-> <<>>, seen |-> <<>>,
     outs |-> <<>>]

AttemptEv(n) == [ev |-> "attempt", n |-> n]

SleepEv(ms) == [ev |-> "sleep", n |-> ms]

\* top of the while loop up to the await: attempt++, arm the abort timer,
\* log, issue the request
Issue(call) ==
    [call EXCEPT !.pc = "inflight", !.attempt = @ + 1,
                 !.timer = call.attempt + 1,
                 !.log = Append(@, AttemptEv(call.attempt + 1))]

\* fetchWithRetry(url, opts, retries, timeout): let attempt = 0, then the
\* first pass of the loop, which runs synchronously up to the await
StartCall(url, retries) ==
    Issue([IdleCall EXCEPT !.url = url, !.retries = retries])

\* the error the call throws when the budget is spent: throw err
ThrownMutant(call, err) == IF call.outs = <<>> THEN err ELSE call.outs[1]

Thrown(call, err) == err

\* clearTimeout(id)
ClearTimeoutMutant(call) == call

ClearTimeout(call) == [call EXCEPT !.timer = 0]

\* the catch block: clearTimeout; throw when exhausted, else sleep the backoff
Catch(call, err) ==
    LET c1 == [ClearTimeout(call) EXCEPT !.outs = Append(@, err)]
    IN  IF Exhausted(c1.attempt, c1.retries)
        THEN [c1 EXCEPT !.pc = "threw", !.err = Thrown(call, err)]
        ELSE [c1 EXCEPT !.pc = "sleeping",
                        !.log = Append(@, SleepEv(Backoff(c1.attempt)))]

\* the try block after fetch resolved with a Response of this status
Resolve(call, status) ==
    IF IsOk(status)
    THEN [ClearTimeout(call) EXCEPT !.pc = "returned", !.status = status]
    ELSE Catch(ClearTimeout(call), Error("Error", status, call.attempt))

\* what the upstream did to the attempt in flight (history only)
Saw(call, kind, status) ==
    [call EXCEPT !.seen = Append(@, [kind |-> kind, status |-> status])]

\* a continuation of the call c runs: attempt, controller, id and backoff
\* are locals of that call, so it writes the record of c and no other
ContinueMutant(cs, c, k) ==
    [d \in DOMAIN cs |->
        IF d = c THEN k
        ELSE IF cs[d].pc = "idle" THEN cs[d]
        ELSE [cs[d] EXCEPT !.attempt = k.attempt]]

Continue(cs, c, k) == [cs EXCEPT ![c] = k]

\* fetch resolves: the response headers arrived
FetchRespond ==
    /\ \E c \in CallIds, s \in Statuses :
          /\ calls[c].pc = "inflight"
          /\ calls' = Continue(calls, c, Resolve(Saw(calls[c], "response", s), s))
    /\ UNCHANGED <<up, pg, chain, pay, rest>>

\* fetch rejects: connection-level failure (DNS, refused, reset)
FetchNetworkError ==
    /\ \E c \in CallIds :
          /\ calls[c].pc = "inflight"
          /\ calls' = Continue(calls, c,
                Catch(Saw(calls[c], "network", NoStatus),
                      Error("TypeError", NoStatus, calls[c].attempt)))
    /\ UNCHANGED <<up, pg, chain, pay, rest>>

\* the abort timer fires: controller.abort() rejects the fetch of the attempt
\* the timer was armed for
FetchTimeout ==
    /\ \E c \in CallIds :
          /\ calls[c].timer # 0
          /\ calls' = Continue(calls, c,
                IF calls[c].pc = "inflight" /\ calls[c].timer = calls[c].attempt
                THEN Catch(Saw(calls[c], "abort", NoStatus),
                           Error("AbortError", NoStatus, calls[c].attempt))
                ELSE [calls[c] EXCEPT !.timer = 0])
    /\ UNCHANGED <<up, pg, chain, pay, rest>>

\* the backoff timer fires: the loop goes round and issues the next attempt
FetchWake ==
    /\ \E c \in CallIds :
          /\ calls[c].pc = "sleeping"
          /\ calls' = Continue(calls, c, Issue(calls[c]))
    /\ UNCHANGED <<up, pg, chain, pay, rest>>

(***************************************************************************)
(* A caller of fetchWithRetry with an explicit retry budget; a new call    *)
(* can be made when the previous one has settled.                          *)
(***************************************************************************)
DirectCall ==
    /\ calls["direct"].pc \in {"idle", "returned", "threw"}
    /\ \E r \in 1..MaxRetries :
          calls' = [calls EXCEPT !["direct"] = StartCall(Url("any", NoOffset), r)]
    /\ UNCHANGED <<up, pg, chain, pay, rest>>

(***************************************************************************)
(* The upstream block explorer.                                            *)
(*   up.honest  it serves the block transactions by offset, PAGE_SIZE at   *)
(*              a time; otherwise any page, or no page at all, may come    *)
(*   up.n       the number of transactions of the block                    *)
(* A transaction of a block is modelled by its identifier, its 1-based     *)
(* position in the block.                                                  *)
(***************************************************************************)
BlockSizes == {0, 10, 25, 85}

Upstreams ==
    {[honest |-> TRUE, n |-> n] : n \in BlockSizes}
       \cup {[honest |-> FALSE, n |-> 0]}

\* a response body as res.json() delivers it: a JSON array, another JSON
\* value, or text that is no JSON (res.json() rejects)
ArrayBody(items) == [kind |-> "array", items |-> items]

ObjectBody == [kind |-> "object", items |-> <<>>]

GarbageBody == [kind |-> "garbage", items |-> <<>>]

Ids(base, len) == [i \in 1..len |-> base + i]

Min(a, b) == IF a <= b THEN a ELSE b

\* the bodies the upstream can send for a page url
PageBodies(url) ==
    LET off == IF url.off = NoOffset THEN 0 ELSE url.off
    IN  IF up.honest
        THEN {ArrayBody(Ids(off, IF up.n > off THEN Min(PAGE_SIZE, up.n - off) ELSE 0))}
        ELSE {ArrayBody(Ids(off, len)) : len \in {0, 10, PAGE_SIZE, PAGE_SIZE + 1}}
                \cup {ArrayBody(Ids(0, PAGE_SIZE)), ObjectBody, GarbageBody}

(***************************************************************************)
(* getBlockTxs.                                                            *)
(*   pc     "idle", "fetching" (awaiting fetchWithRetry), "polite"         *)
(*          (awaiting the 50 ms timer), "done" (returned all), "failed"    *)
(*   all, start, url   the locals                                          *)
(*   pages  history: the pages received, in order                          *)
(*   reqs   history: the urls fetchWithRetry was called with, in order     *)
(*   over   the call went beyond MaxPages pages                            *)
(***************************************************************************)
IdlePager ==
    [pc |-> "idle", all |-> <<>>, start |-> 0, url |-> Url("", NoOffset),
     pages |-> <<>>, reqs |-> <<>>, over |-> FALSE]

\* `${apiBase}/block/${hash}/txs`
FirstPageUrl == Url("block/txs", NoOffset)

\* `${apiBase}/block/${hash}/txs/${start}`
OffsetPageUrl(start) == Url("block/txs", start)

\* let all = []; let url = first page; let start = 0; first fetchWithRetry
PagerStart ==
    [IdlePager EXCEPT !.pc = "fetching", !.url = FirstPageUrl,
                      !.reqs = <<FirstPageUrl>>]

\* all = all.concat(page)
ConcatMutant(all, page) == page \o all

Concat(all, page) == all \o page

\* if (page.length < PAGE_SIZE) break
LastPageMutant(page) == Len(page) <= PAGE_SIZE

LastPage(page) == Len(page) < PAGE_SIZE

\* start += PAGE_SIZE
NextStartMutant(start, page) == start

NextStart(start, page) == start + PAGE_SIZE

\* an error leaves getBlockTxs: the call has no value
PageFailedMutant(p) == [p EXCEPT !.pc = "done"]

PageFailed(p) == [p EXCEPT !.pc = "failed"]

\* all = all.concat(page), before anything else is requested
AccumulateMutant(p, page) == p

Accumulate(p, page) ==
    [p EXCEPT !.all = Concat(@, page), !.pages = Append(@, page)]

\* the loop body after res.json() delivered body
PagerReceive(p, body) ==
    IF body.kind # "array"
    THEN PageFailed(p)
    ELSE IF Len(p.pages) >= MaxPages
    THEN [p EXCEPT !.over = TRUE,
                   !.pc = IF LastPage(body.items) THEN "done" ELSE "polite"]
    ELSE LET accumulated == Accumulate(p, body.items)
         IN  IF LastPage(body.items)
             THEN [accumulated EXCEPT !.pc = "done"]
             ELSE [accumulated EXCEPT
                      !.pc = "polite",
                      !.start = NextStart(p.start, body.items),
                      !.url = OffsetPageUrl(NextStart(p.start, body.items))]

\* a caller invokes getBlockTxs (again, once the previous call has ended)
PagerCall ==
    /\ pg.pc \in {"idle", "done", "failed"}
    /\ \E u \in Upstreams : up' = u
    /\ pg' = PagerStart
    /\ calls' = [calls EXCEPT !["getBlockTxs"] = StartCall(FirstPageUrl, DEFAULT_RETRIES)]
    /\ UNCHANGED <<chain, pay, rest>>

\* fetchWithRetry returned: read the body, append the page, decide
PagerPage ==
    /\ pg.pc = "fetching"
    /\ calls["getBlockTxs"].pc = "returned"
    /\ \E body \in PageBodies(pg.url) : pg' = PagerReceive(pg, body)
    /\ calls' = [calls EXCEPT !["getBlockTxs"] = IdleCall]
    /\ UNCHANGED <<up, chain, pay, rest>>

\* fetchWithRetry threw: the error leaves getBlockTxs
PagerFetchFailed ==
    /\ pg.pc = "fetching"
    /\ calls["getBlockTxs"].pc = "threw"
    /\ pg' = PageFailed(pg)
    /\ calls' = [calls EXCEPT !["getBlockTxs"] = IdleCall]
    /\ UNCHANGED <<up, chain, pay, rest>>

\* the 50 ms timer fired: next pass of the loop, next fetchWithRetry
PagerNext ==
    /\ pg.pc = "polite"
    /\ pg' = [pg EXCEPT !.pc = "fetching",
                        !.reqs = IF pg.over THEN @ ELSE Append(@, pg.url)]
    /\ calls' = [calls EXCEPT !["getBlockTxs"] = StartCall(pg.url, DEFAULT_RETRIES)]
    /\ UNCHANGED <<up, chain, pay, rest>>

(***************************************************************************)
(* Text bodies.  A text is a sequence of one-character strings.            *)
(***************************************************************************)
IsSpace(ch) == ch \in {" ", "\n", "\t", "\r"}

DigitChars == <<"0", "1", "2", "3", "4", "5", "6", "7", "8", "9">>

IsDigit(ch) == \E d \in 1..10 : DigitChars[d] = ch

DigitValue(ch) == (CHOOSE d \in 1..10 : DigitChars[d] = ch) - 1

RECURSIVE TrimStart(_)
TrimStart(text) ==
    IF text # <<>> /\ IsSpace(Head(text)) THEN TrimStart(Tail(text)) ELSE text

RECURSIVE TrimEnd(_)
TrimEnd(text) ==
    IF text # <<>> /\ IsSpace(text[Len(text)])
    THEN TrimEnd(SubSeq(text, 1, Len(text) - 1))
    ELSE text

\* String.prototype.trim
Trim(text) == TrimEnd(TrimStart(text))

\* the value of the longest prefix of decimal digits, with the digits read
RECURSIVE DigitPrefix(_, _, _)
DigitPrefix(text, acc, read) ==
    IF text # <<>> /\ IsDigit(Head(text))
    THEN DigitPrefix(Tail(text), 10 * acc + DigitValue(Head(text)), read + 1)
    ELSE [value |-> acc, read |-> read]

\* parseInt(text, 10): leading white space, an optional sign, then as many
\* decimal digits as there are; NaN when there is none
ParseInt(text) ==
    LET t == TrimStart(text)
        neg == t # <<>> /\ Head(t) = "-"
        u == IF t # <<>> /\ Head(t) \in {"-", "+"} THEN Tail(t) ELSE t
        p == DigitPrefix(u, 0, 0)
    IN  [nan |-> p.read = 0, value |-> IF neg THEN 0 - p.value ELSE p.value]

(***************************************************************************)
(* getTipHeight, getTipHash, getBlockMeta: what the function makes of the  *)
(* body of the response (failed: it throws).                               *)
(***************************************************************************)
\* bodies of /blocks/tip/height
HeightTexts ==
    {<<"1", "0", "0", "\n">>, <<>>, <<"a", "b">>, <<"1", "0", "0", "a">>}

\* parseInt(text.trim(), 10); throw when Number.isNaN(height)
TipHeightOf(text) ==
    LET h == ParseInt(Trim(text))
    IN  [failed |-> h.nan, height |-> IF h.nan THEN 0 ELSE h.value]

\* bodies of /blocks/tip/hash
HashTexts == {<<"h", "1", "\n">>, <<>>, <<" ", "\n">>}

\* (await res.text()).trim(); throw when empty
TipHashOf(text) == [failed |-> Trim(text) = <<>>, hash |-> Trim(text)]

\* a tx_count that is no number
NoCount == -1

\* bodies of /block/{hash}: a JSON object (its other fields in `more`), JSON
\* null, or text that is no JSON
MetaObject(id, height, count) ==
    [kind |-> "object", id |-> id, height |-> height, timestamp |-> 1700000000,
     tx_count |-> count, size |-> 1234, more |-> "weight"]

MetaBodies ==
    {MetaObject(<<"h", "1">>, h, c) : h \in {100, 101}, c \in {85, NoCount}}
       \cup {[MetaObject(<<>>, 0, NoCount) EXCEPT !.kind = "null"],
             [MetaObject(<<>>, 0, NoCount) EXCEPT !.kind = "garbage"]}

\* await res.json(), then the five fields that are kept
BlockMetaOf(json) ==
    [failed |-> json.kind # "object",
     meta |-> [id |-> json.id, height |-> json.height,
               timestamp |-> json.timestamp, tx_count |-> json.tx_count,
               size |-> json.size]]

NoMeta == BlockMetaOf(MetaObject(<<>>, 0, NoCount)).meta

(***************************************************************************)
(* main of esplora-client.js.                                              *)
(*   pc        "idle", then the function main awaits: "height", "hash",    *)
(*             "meta", "txs"; "exit" once main has returned                *)
(*   exitCode  process.exitCode (0 while unset)                            *)
(*   out       the result objects written to stdout, in order              *)
(*   warned    a tx_count mismatch was logged                              *)
(*   trail     history: the steps main went through, each with the cause   *)
(*             of its failure ("" when it succeeded)                       *)
(*   envApi    process.env.ESPLORA_API as main read it ("" when unset)     *)
(*   apiBase   the base URL main settled on ("" before)                    *)
(* One process runs one of the two scripts: main of one is called only     *)
(* when main of the other was not.                                         *)
(***************************************************************************)
IdleChain ==
    [pc |-> "idle", exitCode |-> 0, height |-> 0, hash |-> <<>>,
     meta |-> NoMeta, out |-> <<>>, warned |-> FALSE, trail |-> <<>>,
     envApi |-> "", apiBase |-> "", read |-> <<>>]

\* history: the text body a reader got from res.text()
Read(flow, text) == [flow EXCEPT !.read = Append(@, text)]

Note(flow, step, cause) ==
    [flow EXCEPT !.trail = Append(@, [step |-> step, cause |-> cause])]

\* values of the environment variable ESPLORA_API ("" when unset)
DEFAULT_API == "https://blockstream.info/testnet/api"

\* values of ESPLORA_API: unset or empty, a testnet one written TestNet with
\* a trailing slash, the mainnet one
EnvApis == {"", "https://example.org/TestNet/api/", "https://blockstream.info/api"}

\* /testnet/i.test(envApi)
IsTestnetApi(envApi) == envApi \in {DEFAULT_API, "https://example.org/TestNet/api/"}

\* if (envApi) { if (!/testnet/i.test(envApi)) ... }
RejectedApiMutant(envApi) == ~IsTestnetApi(envApi)

RejectedApi(envApi) == envApi # "" /\ ~IsTestnetApi(envApi)

\* envApi.replace(/\/+$/g, '')
StripSlashes(envApi) ==
    IF envApi = "https://example.org/TestNet/api/"
    THEN "https://example.org/TestNet/api" ELSE envApi

\* let apiBase = DEFAULT_API; if (envApi) { ...; apiBase = envApi.replace(...) }
ApiBaseOf(envApi) == IF envApi = "" THEN DEFAULT_API ELSE StripSlashes(envApi)

\* the catch block of main
FatalMutant(flow) == [flow EXCEPT !.pc = "exit"]

FatalQuietMutant(flow) == [flow EXCEPT !.exitCode = 1]

Fatal(flow) == [flow EXCEPT !.pc = "exit", !.exitCode = 1]

\* process.exitCode = 2; return
Refuse(flow) == [flow EXCEPT !.pc = "exit", !.exitCode = 2]

\* main up to its first await
ChainMain ==
    /\ chain.pc = "idle"
    /\ pay.pc = "idle"
    /\ \E envApi \in EnvApis :
          IF RejectedApi(envApi)
          THEN /\ chain' = Refuse([Note(chain, "config", "api") EXCEPT !.envApi = envApi])
               /\ UNCHANGED <<calls, up>>
          ELSE /\ chain' = [chain EXCEPT !.pc = "height", !.envApi = envApi,
                                         !.apiBase = ApiBaseOf(envApi)]
               /\ calls' = [calls EXCEPT !["getTipHeight"] =
                               StartCall(Url("blocks/tip/height", NoOffset), DEFAULT_RETRIES)]
               /\ \E u \in Upstreams : up' = u
    /\ UNCHANGED <<pg, pay, rest>>

\* getTipHeight got its response; main goes on to getTipHash
ChainHeight ==
    /\ chain.pc = "height"
    /\ calls["getTipHeight"].pc = "returned"
    /\ \E text \in HeightTexts :
          LET r == TipHeightOf(text)
          IN  IF r.failed
              THEN /\ chain' = Fatal(Note(Read(chain, text), "height", "body"))
                   /\ calls' = [calls EXCEPT !["getTipHeight"] = IdleCall]
              ELSE /\ chain' = [Note(Read(chain, text), "height", "") EXCEPT
                                  !.pc = "hash", !.height = r.height]
                   /\ calls' = [calls EXCEPT
                         !["getTipHeight"] = IdleCall,
                         !["getTipHash"] =
                            StartCall(Url("blocks/tip/hash", NoOffset), DEFAULT_RETRIES)]
    /\ UNCHANGED <<up, pg, pay, rest>>

\* getTipHash got its response; main goes on to getBlockMeta
ChainHash ==
    /\ chain.pc = "hash"
    /\ calls["getTipHash"].pc = "returned"
    /\ \E text \in HashTexts :
          LET r == TipHashOf(text)
          IN  IF r.failed
              THEN /\ chain' = Fatal(Note(Read(chain, text), "hash", "body"))
                   /\ calls' = [calls EXCEPT !["getTipHash"] = IdleCall]
              ELSE /\ chain' = [Note(Read(chain, text), "hash", "") EXCEPT
                                  !.pc = "meta", !.hash = r.hash]
                   /\ calls' = [calls EXCEPT
                         !["getTipHash"] = IdleCall,
                         !["getBlockMeta"] =
                            StartCall(Url("block", NoOffset), DEFAULT_RETRIES)]
    /\ UNCHANGED <<up, pg, pay, rest>>

\* getBlockMeta got its response; main goes on to getBlockTxs
ChainMeta ==
    /\ chain.pc = "meta"
    /\ calls["getBlockMeta"].pc = "returned"
    /\ \E json \in MetaBodies :
          LET r == BlockMetaOf(json)
          IN  IF r.failed
              THEN /\ chain' = Fatal(Note(chain, "meta", "body"))
                   /\ calls' = [calls EXCEPT !["getBlockMeta"] = IdleCall]
                   /\ UNCHANGED pg
              ELSE /\ chain' = [Note(chain, "meta", "") EXCEPT
                                  !.pc = "txs", !.meta = r.meta]
                   /\ pg' = PagerStart
                   /\ calls' = [calls EXCEPT
                         !["getBlockMeta"] = IdleCall,
                         !["getBlockTxs"] = StartCall(FirstPageUrl, DEFAULT_RETRIES)]
    /\ UNCHANGED <<up, pay, rest>>

\* the fetchWithRetry main is waiting for (inside a reader) threw
ChainFetchFailed ==
    /\ chain.pc \in {"height", "hash", "meta"}
    /\ \E c \in {"getTipHeight", "getTipHash", "getBlockMeta"} :
          /\ calls[c].pc = "threw"
          /\ calls' = [calls EXCEPT ![c] = IdleCall]
    /\ chain' = Fatal(Note(chain, chain.pc, "fetch"))
    /\ UNCHANGED <<up, pg, pay, rest>>

\* if (typeof meta.tx_count === 'number' && meta.tx_count !== txs.length)
CountMismatchMutant(meta, txs) == meta.tx_count # Len(txs)

CountMismatch(meta, txs) == meta.tx_count # NoCount /\ meta.tx_count # Len(txs)

\* getBlockTxs returned: the tx_count check, then the result object
ChainTxs ==
    /\ chain.pc = "txs"
    /\ pg.pc = "done"
    /\ chain' = [Note(chain, "txs", "") EXCEPT
          !.pc = "exit",
          !.warned = CountMismatch(chain.meta, pg.all),
          !.out = Append(@, [height |-> chain.height, hash |-> chain.hash,
                             meta |-> chain.meta, txs |-> pg.all])]
    /\ UNCHANGED <<calls, up, pg, pay, rest>>

\* getBlockTxs threw
ChainTxsFailed ==
    /\ chain.pc = "txs"
    /\ pg.pc = "failed"
    /\ chain' = Fatal(Note(chain, "txs", "pager"))
    /\ UNCHANGED <<calls, up, pg, pay, rest>>

(***************************************************************************)
(* Address transactions (check-payments.js).                               *)
(*   txid    the identifier                                                *)
(*   vout    the outputs: scriptpubkey_address ("" when the output has     *)
(*           none) and value in satoshis                                   *)
(*   status  confirmed, and block_height (NoHeight when it is no number)   *)
(***************************************************************************)
NoHeight == -1

Output(addr, value) == [scriptpubkey_address |-> addr, value |-> value]

TxStatus(confirmed, height) == [confirmed |-> confirmed, block_height |-> height]

Tx(txid, vout, status) == [txid |-> txid, vout |-> vout, status |-> status]

TxIds == {"t1", "t2"}

\* output lists: 500 + 200 to A and 300 to B; 300 to B and one output
\* without an address
Vouts ==
    {<<Output("A", 500), Output("B", 300), Output("A", 200)>>,
     <<Output("B", 300), Output("", 900)>>}

\* what /address/{addr}/txs lists: transactions confirmed in a block
ConfirmedTxs ==
    {Tx(id, v, TxStatus(TRUE, 91)) : id \in TxIds, v \in Vouts}

\* what /address/{addr}/txs/mempool lists: transactions not yet in a block
MempoolTxs ==
    {Tx(id, v, TxStatus(FALSE, NoHeight)) : id \in TxIds, v \in Vouts}

SeqsUpTo(S, n) == UNION {[1..k -> S] : k \in 0..n}

\* the bodies of the two address endpoints
AddressBodies(txs) ==
    {ArrayBody(page) : page \in SeqsUpTo(txs, MaxAddrTxs)}
       \cup {ObjectBody, GarbageBody}

\* an address with one transaction more than a page holds, each paying it
\* 500 satoshis
LongHistory ==
    [i \in 1..(PAGE_SIZE + 1) |->
        Tx("f" \o ToString(i), <<Output("A", 500)>>, TxStatus(TRUE, 91))]

\* what the upstream sends for the address endpoint without an offset: the
\* first PAGE_SIZE transactions
FirstPage(history) == SubSeq(history, 1, Min(PAGE_SIZE, Len(history)))

\* the bodies of /address/{addr}/txs
ConfirmedBodies ==
    AddressBodies(ConfirmedTxs) \cup {ArrayBody(FirstPage(LongHistory))}

\* extractIncomingAmount: the loop over tx.vout
RECURSIVE SumIncomingMutant(_, _)
RECURSIVE SumIncoming(_, _)
SumIncomingMutant(address, vout) ==
    IF vout = <<>> THEN 0
    ELSE (IF "scriptpubkey_address" \in DOMAIN Head(vout)
             /\ Head(vout).scriptpubkey_address = address
          THEN Head(vout).value ELSE 0)
         + SumIncomingMutant(address, Tail(vout))

\* v.scriptpubkey_address && v.scriptpubkey_address === address: the field
\* is there, is not the empty string, and is the same string
SumIncoming(address, vout) ==
    IF vout = <<>> THEN 0
    ELSE (IF "scriptpubkey_address" \in DOMAIN Head(vout)
             /\ Head(vout).scriptpubkey_address # ""
             /\ Head(vout).scriptpubkey_address = address
          THEN Head(vout).value ELSE 0)
         + SumIncoming(address, Tail(vout))

\* if (!Array.isArray(tx.vout)) return 0: a transaction object without vout
ExtractIncomingAmount(address, tx) ==
    IF "vout" \notin DOMAIN tx THEN 0 ELSE SumIncoming(address, tx.vout)

\* satsToBtc: (sats / 1e8).toFixed(8), as the integer part and the 8 decimals
SatsToBtc(sats) == [whole |-> sats \div 100000000, decimals |-> sats % 100000000]

\* confirmedFlag = tx.status && tx.status.confirmed;
\* confirmedFlag && typeof block_height === 'number' ? tip - h + 1 : 0
ConfirmationsMutant(tip, tx) ==
    IF "status" \in DOMAIN tx /\ tx.status.block_height # NoHeight
    THEN tip - tx.status.block_height + 1
    ELSE 0

Confirmations(tip, tx) ==
    IF "status" \in DOMAIN tx /\ tx.status.confirmed /\ tx.status.block_height # NoHeight
    THEN tip - tx.status.block_height + 1
    ELSE 0

\* Map.prototype.set on a map kept as the sequence of its entries in
\* insertion order: an existing key keeps its place and gets the new value
MapSetMutant(map, tx) ==
    IF \E i \in 1..Len(map) : map[i].txid = tx.txid THEN map ELSE Append(map, tx)

MapSet(map, tx) ==
    IF \E i \in 1..Len(map) : map[i].txid = tx.txid
    THEN [i \in 1..Len(map) |-> IF map[i].txid = tx.txid THEN tx ELSE map[i]]
    ELSE Append(map, tx)

RECURSIVE MapSetAll(_, _)
MapSetAll(map, txs) ==
    IF txs = <<>> THEN map ELSE MapSetAll(MapSet(map, Head(txs)), Tail(txs))

\* txMap: the confirmed entries first, then the mempool entries
MergeTxs(confirmed, mempool) == MapSetAll(MapSetAll(<<>>, confirmed), mempool)

Payment(address, tip, tx) ==
    [txid |-> tx.txid,
     amount_sats |-> ExtractIncomingAmount(address, tx),
     amount_btc |-> SatsToBtc(ExtractIncomingAmount(address, tx)),
     confirmations |-> Confirmations(tip, tx)]

\* the loop over txMap.entries(): skip when !amount || amount <= 0
RECURSIVE PaymentsOfMutant(_, _, _)
PaymentsOfMutant(address, tip, map) ==
    IF map = <<>> THEN <<>>
    ELSE (IF ExtractIncomingAmount(address, Head(map)) < 0
          THEN <<>> ELSE <<Payment(address, tip, Head(map))>>)
         \o PaymentsOfMutant(address, tip, Tail(map))

RECURSIVE PaymentsOf(_, _, _)
PaymentsOf(address, tip, map) ==
    IF map = <<>> THEN <<>>
    ELSE (IF ExtractIncomingAmount(address, Head(map)) <= 0
          THEN <<>> ELSE <<Payment(address, tip, Head(map))>>)
         \o PaymentsOf(address, tip, Tail(map))

\* the comparator of payments.sort: negative when a goes first
CompareMutant(a, b) ==
    IF b.confirmations # a.confirmations
    THEN b.confirmations - a.confirmations
    ELSE a.amount_sats - b.amount_sats

Compare(a, b) ==
    IF b.confirmations # a.confirmations
    THEN b.confirmations - a.confirmations
    ELSE b.amount_sats - a.amount_sats

\* Array.prototype.sort is stable: p goes behind every entry that does not
\* have to follow it
RECURSIVE InsertSorted(_, _)
InsertSorted(sorted, p) ==
    IF sorted = <<>> THEN <<p>>
    ELSE IF Compare(Head(sorted), p) <= 0
    THEN <<Head(sorted)>> \o InsertSorted(Tail(sorted), p)
    ELSE <<p>> \o sorted

RECURSIVE SortInto(_, _)
SortInto(sorted, list) ==
    IF list = <<>> THEN sorted
    ELSE SortInto(InsertSorted(sorted, Head(list)), Tail(list))

SortPayments(list) == SortInto(<<>>, list)

(***************************************************************************)
(* main of check-payments.js.                                              *)
(*   pc        "idle", "tip" (awaiting getTipHeight), "all" (awaiting      *)
(*             Promise.all), "exit" once main has returned                 *)
(*   conf      getAddressTxs: "none", "pending", "ok", "failed"            *)
(*   mem       getAddressMempoolTxs: "none", "pending", "ok"               *)
(*   confirmed, mempool   what the two functions returned                  *)
(*   trail     history, as for the other main; the mempool step is in it   *)
(*             although main never sees it fail                            *)
(*   out       the result objects written to stdout, in order              *)
(***************************************************************************)
IdlePay ==
    [pc |-> "idle", exitCode |-> 0, address |-> "", tip |-> 0,
     conf |-> "none", mem |-> "none", confirmed |-> <<>>, mempool |-> <<>>,
     out |-> <<>>, trail |-> <<>>, envApi |-> "", apiBase |-> ""]

\* process.argv.slice(2)
Argvs == {<<>>, <<"A">>}

\* `${apiBase}/address/${address}/txs`
AddressTxsUrlMutant == Url("address/txs", PAGE_SIZE)

AddressTxsUrl == Url("address/txs", NoOffset)

\* const [confirmed, mempool] = await Promise.all([...]): both functions run
\* up to their first await, the first attempt of their fetchWithRetry
StartBothMutant(c) ==
    [c EXCEPT
       !["getAddressTxs"] = StartCall(AddressTxsUrl, DEFAULT_RETRIES)]

StartBoth(c) ==
    [c EXCEPT
       !["getAddressTxs"] = StartCall(AddressTxsUrl, DEFAULT_RETRIES),
       !["getAddressMempoolTxs"] =
          StartCall(Url("address/txs/mempool", NoOffset), DEFAULT_RETRIES)]

\* main up to its first await
PayMain ==
    /\ pay.pc = "idle"
    /\ chain.pc = "idle"
    /\ \E hasFetch \in BOOLEAN, argv \in Argvs, envApi \in EnvApis :
          IF ~hasFetch \/ argv = <<>>
          THEN /\ pay' = Refuse(Note(pay, "config",
                                     IF ~hasFetch THEN "fetch" ELSE "usage"))
               /\ UNCHANGED calls
          ELSE IF RejectedApi(envApi)
          THEN /\ pay' = Refuse([Note(pay, "config", "api") EXCEPT
                                   !.address = argv[1], !.envApi = envApi])
               /\ UNCHANGED calls
          ELSE /\ pay' = [pay EXCEPT !.pc = "tip", !.address = argv[1],
                                     !.envApi = envApi, !.apiBase = ApiBaseOf(envApi)]
               /\ calls' = [calls EXCEPT !["getTipHeight"] =
                               StartCall(Url("blocks/tip/height", NoOffset), DEFAULT_RETRIES)]
    /\ UNCHANGED <<up, pg, chain, rest>>

\* getTipHeight got its response; main goes on to Promise.all
PayTip ==
    /\ pay.pc = "tip"
    /\ calls["getTipHeight"].pc = "returned"
    /\ \E text \in HeightTexts :
          LET r == TipHeightOf(text)
          IN  IF r.failed
              THEN /\ pay' = Fatal(Note(pay, "tip", "body"))
                   /\ calls' = [calls EXCEPT !["getTipHeight"] = IdleCall]
              ELSE /\ pay' = [Note(pay, "tip", "") EXCEPT
                                 !.pc = "all", !.tip = r.height,
                                 !.conf = "pending", !.mem = "pending"]
                   /\ calls' = StartBoth([calls EXCEPT !["getTipHeight"] = IdleCall])
    /\ UNCHANGED <<up, pg, chain, rest>>

\* the fetchWithRetry of getTipHeight threw
PayTipFailed ==
    /\ pay.pc = "tip"
    /\ calls["getTipHeight"].pc = "threw"
    /\ pay' = Fatal(Note(pay, "tip", "fetch"))
    /\ calls' = [calls EXCEPT !["getTipHeight"] = IdleCall]
    /\ UNCHANGED <<up, pg, chain, rest>>

\* getAddressTxs got its response: it returns the page, or throws when the
\* body is no array, which rejects Promise.all and takes main to its catch
PayConfirmed ==
    /\ pay.conf = "pending"
    /\ calls["getAddressTxs"].pc = "returned"
    /\ \E body \in ConfirmedBodies :
          pay' = IF body.kind = "array"
                 THEN [Note(pay, "confirmed", "") EXCEPT
                         !.conf = "ok", !.confirmed = body.items]
                 ELSE [Fatal(Note(pay, "confirmed", "body")) EXCEPT !.conf = "failed"]
    /\ calls' = [calls EXCEPT !["getAddressTxs"] = IdleCall]
    /\ UNCHANGED <<up, pg, chain, rest>>

\* the fetchWithRetry of getAddressTxs threw
PayConfirmedFailed ==
    /\ pay.conf = "pending"
    /\ calls["getAddressTxs"].pc = "threw"
    /\ pay' = [Fatal(Note(pay, "confirmed", "fetch")) EXCEPT !.conf = "failed"]
    /\ calls' = [calls EXCEPT !["getAddressTxs"] = IdleCall]
    /\ UNCHANGED <<up, pg, chain, rest>>

\* the try block of getAddressMempoolTxs after fetchWithRetry returned:
\* the array, or [] when the body is no array (return []) or no JSON (res.json()
\* rejects into the catch block, which returns [])
MempoolReceiveMutant(p, body) ==
    IF body.kind = "array"
    THEN [Note(p, "mempool", "") EXCEPT !.mem = "ok", !.mempool = body.items]
    ELSE [Fatal(Note(p, "mempool", "body")) EXCEPT !.mem = "ok"]

MempoolReceive(p, body) ==
    [Note(p, "mempool", IF body.kind = "array" THEN "" ELSE "body")
       EXCEPT !.mem = "ok",
              !.mempool = IF body.kind = "array" THEN body.items ELSE <<>>]

\* getAddressMempoolTxs got its response
PayMempool ==
    /\ pay.mem = "pending"
    /\ calls["getAddressMempoolTxs"].pc = "returned"
    /\ \E body \in AddressBodies(MempoolTxs) : pay' = MempoolReceive(pay, body)
    /\ calls' = [calls EXCEPT !["getAddressMempoolTxs"] = IdleCall]
    /\ UNCHANGED <<up, pg, chain, rest>>

\* the catch block of getAddressMempoolTxs: return []
MempoolFallbackMutant(p) == [Fatal(p) EXCEPT !.mem = "ok"]

MempoolFallback(p) == [p EXCEPT !.mem = "ok", !.mempool = <<>>]

\* the fetchWithRetry of getAddressMempoolTxs threw
PayMempoolFailed ==
    /\ pay.mem = "pending"
    /\ calls["getAddressMempoolTxs"].pc = "threw"
    /\ pay' = MempoolFallback(Note(pay, "mempool", "fetch"))
    /\ calls' = [calls EXCEPT !["getAddressMempoolTxs"] = IdleCall]
    /\ UNCHANGED <<up, pg, chain, rest>>

\* the result object of the payment flow
PayOutput(p) ==
    [address |-> p.address, tip_height |-> p.tip,
     payments |-> SortPayments(
                     PaymentsOf(p.address, p.tip, MergeTxs(p.confirmed, p.mempool)))]

\* Promise.all resolved: merge, score, sort, print
PayResult ==
    /\ pay.pc = "all"
    /\ pay.conf = "ok"
    /\ pay.mem = "ok"
    /\ pay' = [pay EXCEPT !.pc = "exit", !.out = Append(@, PayOutput(pay))]
    /\ UNCHANGED <<calls, up, pg, chain, rest>>

(***************************************************************************)
(* The functions of check-payments.js applied to arguments of their own.   *)
(*   calc.fn   the function applied ("none" before), with its arguments    *)
(*             and what it returned                                        *)
(***************************************************************************)
MaxVout == 3

\* an output object without scriptpubkey_address (an unspendable script)
BareOutput(value) == [value |-> value]

\* a transaction object without vout
BareTx(txid, status) == [txid |-> txid, status |-> status]

CalcOutputs ==
    {Output("A", 500), Output("A", 0), Output("a", 50), Output("B", 300),
     Output("", 900), BareOutput(40)}

CalcAddresses == {"A", ""}

CalcTxs ==
    {Tx("t1", vout, TxStatus(FALSE, NoHeight)) : vout \in SeqsUpTo(CalcOutputs, MaxVout)}
       \cup {BareTx("t1", TxStatus(FALSE, NoHeight))}

\* extractIncomingAmount(address, tx)
ExtractCall ==
    /\ calc.fn = "none"
    /\ \E address \in CalcAddresses, tx \in CalcTxs :
          calc' = [fn |-> "extractIncomingAmount", address |-> address, tx |-> tx,
                   result |-> ExtractIncomingAmount(address, tx)]
    /\ UNCHANGED notCalc

MaxScoreTxs == 2

\* a transaction object without status
StatuslessTx(txid, vout) == [txid |-> txid, vout |-> vout]

ScoreStatuses ==
    {TxStatus(TRUE, 91), TxStatus(TRUE, 100), TxStatus(TRUE, NoHeight),
     TxStatus(FALSE, NoHeight), TxStatus(FALSE, 91)}

\* 700, 0 and 200 for A
ScoreVouts == Vouts \cup {<<Output("A", 200)>>}

ScoreTxs ==
    {Tx(id, v, st) : id \in TxIds, v \in ScoreVouts, st \in ScoreStatuses}
       \cup {StatuslessTx("t1", <<Output("A", 200)>>)}

\* main from the merge to the result object, for a tip height of 100
ScoreCall ==
    /\ calc.fn = "none"
    /\ \E confirmed \in SeqsUpTo(ScoreTxs, MaxScoreTxs) :
          \E mempool \in SeqsUpTo(ScoreTxs, MaxScoreTxs - Len(confirmed)) :
             LET args == [address |-> "A", tip |-> 100,
                          confirmed |-> confirmed, mempool |-> mempool]
             IN calc' = [fn |-> "payments", args |-> args, result |-> PayOutput(args)]
    /\ UNCHANGED notCalc

(***************************************************************************)
(* fetchWithRetry of check-payments.js, translated from its own text, and  *)
(* the two copies run on the same budget and the same outcomes of the      *)
(* attempts.                                                               *)
(***************************************************************************)
\* top of the while loop up to the await
PayIssue(call) ==
    [call EXCEPT !.pc = "inflight", !.attempt = @ + 1,
                 !.timer = call.attempt + 1,
                 !.log = Append(@, AttemptEv(call.attempt + 1))]

\* the catch block: clearTimeout(id); if (attempt >= retries) throw err;
\* backoff = 200 * Math.pow(2, attempt - 1); sleep
PayCatchMutant(call, err) ==
    LET c1 == [call EXCEPT !.timer = 0, !.outs = Append(@, err)]
    IN  IF c1.attempt > c1.retries
        THEN [c1 EXCEPT !.pc = "threw", !.err = err]
        ELSE [c1 EXCEPT !.pc = "sleeping",
                        !.log = Append(@, SleepEv(200 * Pow2(c1.attempt - 1)))]

PayCatch(call, err) ==
    LET c1 == [call EXCEPT !.timer = 0, !.outs = Append(@, err)]
    IN  IF c1.attempt >= c1.retries
        THEN [c1 EXCEPT !.pc = "threw", !.err = err]
        ELSE [c1 EXCEPT !.pc = "sleeping",
                        !.log = Append(@, SleepEv(200 * Pow2(c1.attempt - 1)))]

\* the try block after fetch resolved: clearTimeout(id); if (!res.ok) throw
PayResolve(call, status) ==
    IF status >= 200 /\ status <= 299
    THEN [call EXCEPT !.timer = 0, !.pc = "returned", !.status = status]
    ELSE PayCatch([call EXCEPT !.timer = 0], Error("Error", status, call.attempt))

\* what can happen to one attempt: a response with a status, a connection
\* failure, the abort timer
Outcomes ==
    {[kind |-> "response", status |-> s] : s \in Statuses}
       \cup {[kind |-> "network", status |-> NoStatus],
             [kind |-> "abort", status |-> NoStatus]}

\* the error fetch rejects with
RejectionOf(o, attempt) ==
    Error(IF o.kind = "abort" THEN "AbortError" ELSE "TypeError", NoStatus, attempt)

\* the copy of part_000 taken through the outcomes, one per attempt, every
\* backoff timer firing
RECURSIVE RunChainCopy(_, _)
RunChainCopy(call, outcomes) ==
    IF outcomes = <<>> \/ call.pc # "inflight" THEN call
    ELSE LET o == Head(outcomes)
             seen == Saw(call, o.kind, o.status)
             after == IF o.kind = "response" THEN Resolve(seen, o.status)
                      ELSE Catch(seen, RejectionOf(o, call.attempt))
         IN  RunChainCopy(IF after.pc = "sleeping" THEN Issue(after) ELSE after,
                          Tail(outcomes))

\* the copy of check-payments.js taken through the same
RECURSIVE RunPayCopy(_, _)
RunPayCopy(call, outcomes) ==
    IF outcomes = <<>> \/ call.pc # "inflight" THEN call
    ELSE LET o == Head(outcomes)
             seen == Saw(call, o.kind, o.status)
             after == IF o.kind = "response" THEN PayResolve(seen, o.status)
                      ELSE PayCatch(seen, RejectionOf(o, call.attempt))
         IN  RunPayCopy(IF after.pc = "sleeping" THEN PayIssue(after) ELSE after,
                        Tail(outcomes))

\* both copies called with the same url and budget
RetryCall ==
    /\ calc.fn = "none"
    /\ \E retries \in 1..MaxRetries, outcomes \in SeqsUpTo(Outcomes, MaxRetries) :
          LET first == [IdleCall EXCEPT !.url = Url("any", NoOffset), !.retries = retries]
          IN calc' = [fn |-> "fetchWithRetry", retries |-> retries, outcomes |-> outcomes,
                      chain |-> RunChainCopy(Issue(first), outcomes),
                      pay |-> RunPayCopy(PayIssue(first), outcomes)]
    /\ UNCHANGED notCalc

MaxMined == 2

\* main from Promise.all on when the chain has grown by `mined` blocks since
\* getTipHeight read the tip 100: the confirmed page lists a transaction of
\* the newest block
RaceCall ==
    /\ calc.fn = "none"
    /\ \E mined \in 0..MaxMined, v \in ScoreVouts :
          LET args == [address |-> "A", tip |-> 100, mined |-> mined,
                       confirmed |-> <<Tx("t1", v, TxStatus(TRUE, 100 + mined))>>,
                       mempool |-> <<>>]
          IN calc' = [fn |-> "race", args |-> args, result |-> PayOutput(args)]
    /\ UNCHANGED notCalc

MaxSortLen == 3

SortIds == {"t1", "t2", "t3"}

\* payments as main pushes them
SortEntries ==
    {[txid |-> id, amount_sats |-> amount, amount_btc |-> SatsToBtc(amount),
      confirmations |-> confirmations] :
        id \in SortIds, amount \in {200, 700}, confirmations \in {0, 10}}

\* payments.sort(comparator)
SortCall ==
    /\ calc.fn = "none"
    /\ \E payments \in SeqsUpTo(SortEntries, MaxSortLen) :
          calc' = [fn |-> "sort", payments |-> payments,
                   result |-> SortPayments(payments)]
    /\ UNCHANGED notCalc

MaxTextLen == 3

\* the characters of a body of /blocks/tip/height
HeightChars == {"1", "0", "7", "a", " ", "\n", "-", "."}

\* getTipHeight from `const text = await res.text()` on
TipHeightCall ==
    /\ calc.fn = "none"
    /\ \E text \in SeqsUpTo(HeightChars, MaxTextLen) :
          calc' = [fn |-> "getTipHeight", text |-> text, result |-> TipHeightOf(text)]
    /\ UNCHANGED notCalc

(***************************************************************************)
(* contract SecureStorage (StorageSimple.sol).  A transaction that reverts *)
(* leaves the storage and the log as they were.                            *)
(*   deployed    the constructor has run                                   *)
(*   owner, storedData, hashedValue   the storage                          *)
(*   events      the log of the contract                                   *)
(*   last        history: the last transaction, who sent it and how it     *)
(*               ended                                                     *)
(***************************************************************************)
MaxEvents == 3

Accounts == {"owner", "addr1", "addr2"}

NoAccount == "0x0"

Strings == {"Initial Secure", "New Secure Value"}

\* bytes32 values; ZeroHash is the default of an unset slot
ZeroHash == "0x00"

Hashes == {ZeroHash, "0xa1", "0xb2"}

NoSecure ==
    [deployed |-> FALSE, owner |-> NoAccount, storedData |-> "",
     hashedValue |-> ZeroHash, events |-> <<>>, last |-> [fn |-> "none"]]

Receipt(fn, sender, arg) ==
    [fn |-> fn, sender |-> sender, arg |-> arg, reverted |-> FALSE, reason |-> ""]

\* a failed require: nothing but the outcome of the transaction changes
Reverted(c, fn, sender, arg, reason) ==
    [c EXCEPT !.last = [Receipt(fn, sender, arg) EXCEPT !.reverted = TRUE, !.reason = reason]]

\* modifier onlyOwner: require(msg.sender == owner, "Only owner")
OnlyOwnerMutant(c, sender) == TRUE

OnlyOwner(c, sender) == sender = c.owner

\* constructor(initialValue)
SecureDeploy ==
    /\ ~secure.deployed
    /\ \E sender \in Accounts, initialValue \in Strings :
          secure' = [secure EXCEPT
             !.deployed = TRUE,
             !.owner = sender,
             !.storedData = initialValue,
             !.events = Append(@, [name |-> "ValueChanged", newValue |-> initialValue,
                                   changedBy |-> sender]),
             !.last = Receipt("constructor", sender, initialValue)]
    /\ UNCHANGED notSecure

\* setValue(newValue) onlyOwner
SecureSetValue ==
    /\ secure.deployed
    /\ Len(secure.events) < MaxEvents
    /\ \E sender \in Accounts, newValue \in Strings :
          secure' =
             IF ~OnlyOwner(secure, sender)
             THEN Reverted(secure, "setValue", sender, newValue, "Only owner")
             ELSE [secure EXCEPT
                     !.storedData = newValue,
                     !.events = Append(@, [name |-> "ValueChanged", newValue |-> newValue,
                                           changedBy |-> sender]),
                     !.last = Receipt("setValue", sender, newValue)]
    /\ UNCHANGED notSecure

\* setHashedValue(_hash) onlyOwner
SecureSetHashedValue ==
    /\ secure.deployed
    /\ Len(secure.events) < MaxEvents
    /\ \E sender \in Accounts, hash \in Hashes :
          secure' =
             IF ~OnlyOwner(secure, sender)
             THEN Reverted(secure, "setHashedValue", sender, hash, "Only owner")
             ELSE [secure EXCEPT
                     !.hashedValue = hash,
                     !.events = Append(@, [name |-> "HashedValueChanged", newValue |-> hash,
                                           changedBy |-> sender]),
                     !.last = Receipt("setHashedValue", sender, hash)]
    /\ UNCHANGED notSecure

\* getValue() of SecureStorage
SecureGetValue(c) == c.storedData

(***************************************************************************)
(* contract StorageArray (StorageArray.sol).                               *)
(*   deployed    the constructor has run                                   *)
(*   dataArray   the storage, element i of the contract at i + 1           *)
(*   last        history: the last call, its sender, arguments, outcome,   *)
(*               return value and the events of its receipt                *)
(*   initial, adds, removes, cleared   history: the length after the       *)
(*               constructor, the calls of addValue and removeLastValue    *)
(*               that went through, and whether clearAll was called        *)
(***************************************************************************)
MaxInitial == 2

MaxAdds == 2

\* stands for type(uint256).max, the largest index a caller can pass; an
\* index is only ever compared with the length
MaxUint256 == 1000000

NoIndex == -1

NoArray ==
    [deployed |-> FALSE, dataArray |-> <<>>, last |-> [fn |-> "none"],
     initial |-> 0, adds |-> 0, removes |-> 0, cleared |-> FALSE]

ArrCall(fn, sender, index, value) ==
    [fn |-> fn, sender |-> sender, index |-> index, value |-> value,
     reverted |-> FALSE, reason |-> "", returned |-> "", logs |-> <<>>]

\* a failed require, or the panic of an access outside the array: the
\* storage is as before
ArrReverted(c, call, reason) ==
    [c EXCEPT !.last = [call EXCEPT !.reverted = TRUE, !.reason = reason]]

ValueAdded(value, index, addedBy) ==
    [name |-> "ValueAdded", value |-> value, index |-> index, by |-> addedBy]

ValueUpdated(oldValue, newValue, index, updatedBy) ==
    [name |-> "ValueUpdated", oldValue |-> oldValue, value |-> newValue,
     index |-> index, by |-> updatedBy]

ValueRemoved(value, index, removedBy) ==
    [name |-> "ValueRemoved", value |-> value, index |-> index, by |-> removedBy]

\* the indexes callers pass
Indexes == 0..(MaxInitial + MaxAdds) \cup {MaxUint256}

\* require(index < dataArray.length, "Index out of bounds")
InBoundsMutant(index, array) == index <= Len(array)

InBounds(index, array) == index < Len(array)

\* dataArray.push(value)
PushMutant(array, value) == <<value>> \o array

Push(array, value) == Append(array, value)

\* dataArray.pop()
PopMutant(array) == Tail(array)

Pop(array) == SubSeq(array, 1, Len(array) - 1)

\* constructor(initialValues): push and emit ValueAdded for each
ArrDeploy ==
    /\ ~arr.deployed
    /\ \E sender \in Accounts, initialValues \in SeqsUpTo(Strings, MaxInitial) :
          arr' = [arr EXCEPT
             !.deployed = TRUE,
             !.dataArray = initialValues,
             !.initial = Len(initialValues),
             !.last = [ArrCall("constructor", sender, NoIndex, "") EXCEPT
                         !.logs = [i \in 1..Len(initialValues) |->
                                     ValueAdded(initialValues[i], i - 1, sender)]]]
    /\ UNCHANGED notArr

\* addValue(value)
ArrAddValue ==
    /\ arr.deployed
    /\ arr.adds < MaxAdds
    /\ \E sender \in Accounts, value \in Strings :
          arr' = [arr EXCEPT
             !.dataArray = Push(@, value),
             !.adds = @ + 1,
             !.last = [ArrCall("addValue", sender, NoIndex, value) EXCEPT
                         !.logs = <<ValueAdded(value, Len(arr.dataArray) + 1 - 1, sender)>>]]
    /\ UNCHANGED notArr

\* getValue(index), a view call
ArrGetValue ==
    /\ arr.deployed
    /\ \E sender \in Accounts, index \in Indexes :
          LET call == ArrCall("getValue", sender, index, "")
          IN arr' =
               IF ~InBounds(index, arr.dataArray)
               THEN ArrReverted(arr, call, "Index out of bounds")
               ELSE IF index >= Len(arr.dataArray)
               THEN ArrReverted(arr, call, "Panic(0x32)")
               ELSE [arr EXCEPT !.last = [call EXCEPT !.returned = arr.dataArray[index + 1]]]
    /\ UNCHANGED notArr

\* updateValue(index, newValue)
ArrUpdateValue ==
    /\ arr.deployed
    /\ \E sender \in Accounts, index \in Indexes, newValue \in Strings :
          LET call == ArrCall("updateValue", sender, index, newValue)
          IN arr' =
               IF ~InBounds(index, arr.dataArray)
               THEN ArrReverted(arr, call, "Index out of bounds")
               ELSE IF index >= Len(arr.dataArray)
               THEN ArrReverted(arr, call, "Panic(0x32)")
               ELSE [arr EXCEPT
                       !.dataArray[index + 1] = newValue,
                       !.last = [call EXCEPT
                                   !.logs = <<ValueUpdated(arr.dataArray[index + 1],
                                                           newValue, index, sender)>>]]
    /\ UNCHANGED notArr

\* removeLastValue()
ArrRemoveLastValue ==
    /\ arr.deployed
    /\ \E sender \in Accounts :
          LET call == ArrCall("removeLastValue", sender, NoIndex, "")
              removedValue == arr.dataArray[Len(arr.dataArray)]
              popped == Pop(arr.dataArray)
          IN arr' =
               IF ~(Len(arr.dataArray) > 0)
               THEN ArrReverted(arr, call, "Array is empty")
               ELSE [arr EXCEPT
                       !.dataArray = popped,
                       !.removes = @ + 1,
                       !.last = [call EXCEPT
                                   !.returned = removedValue,
                                   !.logs = <<ValueRemoved(removedValue, Len(popped),
                                                           sender)>>]]
    /\ UNCHANGED notArr

\* for (i = 0; i < length; i++) emit ValueRemoved(dataArray[i], i, msg.sender)
RemovalsMutant(array, sender) ==
    [i \in 1..Len(array) |-> ValueRemoved(array[i], i, sender)]

Removals(array, sender) ==
    [i \in 1..Len(array) |-> ValueRemoved(array[i], i - 1, sender)]

\* clearAll(): ValueRemoved for every element, then delete dataArray
ArrClearAll ==
    /\ arr.deployed
    /\ \E sender \in Accounts :
          arr' = [arr EXCEPT
             !.dataArray = <<>>,
             !.cleared = TRUE,
             !.last = [ArrCall("clearAll", sender, NoIndex, "") EXCEPT
                         !.logs = Removals(arr.dataArray, sender)]]
    /\ UNCHANGED notArr

\* getLength()
ArrGetLength(c) == Len(c.dataArray)

\* getAllValues()
ArrGetAllValues(c) == c.dataArray

(***************************************************************************)
(* contract StorageMapping.                                                *)
(*   deployed     the constructor has run to its end                       *)
(*   dataMapping  address => string, "" where nothing was stored           *)
(*   addressList, addressExists   the addresses a value was ever stored    *)
(*                for                                                      *)
(*   inserted     history: the addresses in the order in which a value was *)
(*                first stored for them                                    *)
(*   last         history: the last call, its sender, arguments, outcome   *)
(*                and the events of its receipt                            *)
(***************************************************************************)
ZeroAddress == "0x0000"

Keys == Accounts \cup {ZeroAddress}

MapStrings == {"", "Value1", "Value2"}

\* the call record of a transaction: key and value of a call, initialKeys
\* and initialValues of the deployment
MapCall(fn, sender, key, value) ==
    [fn |-> fn, sender |-> sender, key |-> key, value |-> value,
     initialKeys |-> <<>>, initialValues |-> <<>>,
     reverted |-> FALSE, reason |-> "", logs |-> <<>>]

NoKey == ""

NoMapping ==
    [deployed |-> FALSE, dataMapping |-> [k \in Keys |-> ""], addressList |-> <<>>,
     addressExists |-> [k \in Keys |-> FALSE], inserted |-> <<>>,
     last |-> MapCall("none", NoAccount, NoKey, "")]

\* a failed require: the storage is as before the transaction
MapReverted(c, call, reason) ==
    [c EXCEPT !.last = [call EXCEPT !.reverted = TRUE, !.reason = reason]]

ValueStored(key, value, storedBy) ==
    [name |-> "ValueStored", key |-> key, value |-> value, by |-> storedBy]

ValueDeleted(key, value, deletedBy) ==
    [name |-> "ValueDeleted", key |-> key, value |-> value, by |-> deletedBy]

\* require(key != address(0), "Invalid address")
ValidKeyMutant(key) == TRUE

ValidKey(key) == key # ZeroAddress

\* if (!addressExists[key]) { addressList.push(key); addressExists[key] = true; }
TrackMutant(c, key) ==
    [c EXCEPT !.addressList = Append(@, key), !.addressExists[key] = TRUE]

Track(c, key) ==
    IF ~c.addressExists[key]
    THEN [c EXCEPT !.addressList = Append(@, key), !.addressExists[key] = TRUE]
    ELSE c

\* dataMapping[key] = value
StoreMutant(mapping, key, value) == [k \in DOMAIN mapping |-> value]

Store(mapping, key, value) == [mapping EXCEPT ![key] = value]

\* _setValue(key, value), sent by sender
SetValue_(c, key, value, sender) ==
    [Track(c, key) EXCEPT
       !.dataMapping = Store(@, key, value),
       !.inserted = IF \E i \in 1..Len(@) : @[i] = key THEN @ ELSE Append(@, key),
       !.last.logs = Append(@, ValueStored(key, value, sender))]

\* _deleteValue(key), sent by sender
DeleteValue_(c, key, sender) ==
    [c EXCEPT
       !.dataMapping = Store(@, key, ""),
       !.last.logs = Append(@, ValueDeleted(key, c.dataMapping[key], sender))]

\* the loop of the constructor from pair i on: the contract after it, or
\* the reason it reverted with
RECURSIVE SetInitial(_, _, _, _, _)
SetInitial(c, keys, values, i, sender) ==
    IF i > Len(keys) THEN [reverted |-> FALSE, reason |-> "", contract |-> c]
    ELSE IF ~ValidKey(keys[i])
    THEN [reverted |-> TRUE, reason |-> "Invalid address", contract |-> c]
    ELSE SetInitial(SetValue_(c, keys[i], values[i], sender), keys, values, i + 1, sender)

\* constructor(initialKeys, initialValues), the one deployment transaction
\* of a behaviour; a deployment that reverts leaves no contract
MapDeploy ==
    /\ ~mp.deployed
    /\ mp.last.fn = "none"
    /\ \E sender \in Accounts, initialKeys \in SeqsUpTo(Keys, MaxInitial),
          initialValues \in SeqsUpTo(MapStrings, MaxInitial) :
          LET call == [MapCall("constructor", sender, NoKey, "") EXCEPT
                         !.initialKeys = initialKeys, !.initialValues = initialValues]
              begun == [mp EXCEPT !.last = call]
          IN mp' =
               IF Len(initialKeys) # Len(initialValues)
               THEN MapReverted(mp, call, "Keys and values length mismatch")
               ELSE LET r == SetInitial(begun, initialKeys, initialValues, 1, sender)
                    IN IF r.reverted
                       THEN MapReverted(mp, call, r.reason)
                       ELSE [r.contract EXCEPT !.deployed = TRUE]
    /\ UNCHANGED notMapping

\* setValue(value)
MapSetValue ==
    /\ mp.deployed
    /\ \E sender \in Accounts, value \in MapStrings :
          mp' = SetValue_([mp EXCEPT !.last = MapCall("setValue", sender, sender, value)],
                          sender, value, sender)
    /\ UNCHANGED notMapping

\* setValueFor(key, value)
MapSetValueFor ==
    /\ mp.deployed
    /\ \E sender \in Accounts, key \in Keys, value \in MapStrings :
          LET call == MapCall("setValueFor", sender, key, value)
          IN mp' = IF ~ValidKey(key)
                   THEN MapReverted(mp, call, "Invalid address")
                   ELSE SetValue_([mp EXCEPT !.last = call], key, value, sender)
    /\ UNCHANGED notMapping

\* deleteValue()
MapDeleteValue ==
    /\ mp.deployed
    /\ \E sender \in Accounts :
          mp' = DeleteValue_([mp EXCEPT !.last = MapCall("deleteValue", sender, sender, "")],
                             sender, sender)
    /\ UNCHANGED notMapping

\* deleteValueFor(key)
MapDeleteValueFor ==
    /\ mp.deployed
    /\ \E sender \in Accounts, key \in Keys :
          mp' = DeleteValue_([mp EXCEPT !.last = MapCall("deleteValueFor", sender, key, "")],
                             key, sender)
    /\ UNCHANGED notMapping

\* getValueFor(key)
MapGetValueFor(c, key) == c.dataMapping[key]

\* hasValue(key): bytes(dataMapping[key]).length > 0
MapHasValue(c, key) == c.dataMapping[key] # ""

\* getAllAddresses(): the addresses of addressList with a non-empty value,
\* in the order of the list
MapGetAllAddressesMutant(c) == c.addressList

MapGetAllAddresses(c) ==
    SelectSeq(c.addressList, LAMBDA a : c.dataMapping[a] # "")

\* getAddressCount(): the loop over addressList counting non-empty values
RECURSIVE CountFrom(_, _)
CountFrom(c, i) ==
    IF i > Len(c.addressList) THEN 0
    ELSE (IF c.dataMapping[c.addressList[i]] # "" THEN 1 ELSE 0) + CountFrom(c, i + 1)

MapGetAddressCount(c) == CountFrom(c, 1)

\* getContractInfo()
MapGetContractInfo(c) == <<"StorageMapping Contract v1.0", MapGetAddressCount(c)>>

\* no function applied yet
IdleCalc == [fn |-> "none"]

Init ==
    /\ calls = [c \in CallIds |-> IdleCall]
    /\ up = [honest |-> TRUE, n |-> 0]
    /\ pg = IdlePager
    /\ chain = IdleChain
    /\ pay = IdlePay
    /\ calc = IdleCalc
    /\ secure = NoSecure
    /\ arr = NoArray
    /\ mp = NoMapping

NextFetch ==
    \/ DirectCall
    \/ FetchRespond
    \/ FetchNetworkError
    \/ FetchTimeout
    \/ FetchWake

SpecFetch == Init /\ [][NextFetch]_vars

NextPager ==
    \/ PagerCall
    \/ FetchRespond
    \/ FetchNetworkError
    \/ FetchTimeout
    \/ FetchWake
    \/ PagerPage
    \/ PagerFetchFailed
    \/ PagerNext

SpecPager == Init /\ [][NextPager]_vars

NextChain ==
    \/ ChainMain
    \/ FetchRespond
    \/ FetchNetworkError
    \/ FetchTimeout
    \/ FetchWake
    \/ ChainHeight
    \/ ChainHash
    \/ ChainMeta
    \/ ChainFetchFailed
    \/ PagerPage
    \/ PagerFetchFailed
    \/ PagerNext
    \/ ChainTxs
    \/ ChainTxsFailed

SpecChain == Init /\ [][NextChain]_vars

NextPay ==
    \/ PayMain
    \/ FetchRespond
    \/ FetchNetworkError
    \/ FetchTimeout
    \/ FetchWake
    \/ PayTip
    \/ PayTipFailed
    \/ PayConfirmed
    \/ PayConfirmedFailed
    \/ PayMempool
    \/ PayMempoolFailed
    \/ PayResult

SpecPay == Init /\ [][NextPay]_vars

\* either script, run by one process
NextClients ==
    \/ ChainMain
    \/ PayMain
    \/ FetchRespond
    \/ FetchNetworkError
    \/ FetchTimeout
    \/ FetchWake
    \/ ChainHeight
    \/ ChainHash
    \/ ChainMeta
    \/ ChainFetchFailed
    \/ PagerPage
    \/ PagerFetchFailed
    \/ PagerNext
    \/ ChainTxs
    \/ ChainTxsFailed
    \/ PayTip
    \/ PayTipFailed
    \/ PayConfirmed
    \/ PayConfirmedFailed
    \/ PayMempool
    \/ PayMempoolFailed
    \/ PayResult

SpecClients == Init /\ [][NextClients]_vars

NextCalc ==
    \/ ExtractCall
    \/ ScoreCall
    \/ RaceCall
    \/ RetryCall
    \/ SortCall
    \/ TipHeightCall

SpecCalc == Init /\ [][NextCalc]_vars

NextSecure ==
    \/ SecureDeploy
    \/ SecureSetValue
    \/ SecureSetHashedValue

SpecSecure == Init /\ [][NextSecure]_vars

NextArray ==
    \/ ArrDeploy
    \/ ArrAddValue
    \/ ArrGetValue
    \/ ArrUpdateValue
    \/ ArrRemoveLastValue
    \/ ArrClearAll

SpecArray == Init /\ [][NextArray]_vars

NextMapping ==
    \/ MapDeploy
    \/ MapSetValue
    \/ MapSetValueFor
    \/ MapDeleteValue
    \/ MapDeleteValueFor

SpecMapping == Init /\ [][NextMapping]_vars

\* Scheduling: an attempt in flight ends (it resolves, rejects, or its abort
\* timer fires after `timeout` ms), timers fire, and the event loop runs every
\* continuation that is ready.
FairPager ==
    /\ SpecPager
    /\ WF_vars(FetchRespond \/ FetchNetworkError \/ FetchTimeout)
    /\ WF_vars(FetchWake)
    /\ WF_vars(PagerPage)
    /\ WF_vars(PagerFetchFailed)
    /\ WF_vars(PagerNext)

(***************************************************************************)
(* Claims about fetchWithRetry (checked under SpecFetch).                  *)
(***************************************************************************)
Started == {c \in CallIds : calls[c].pc # "idle"}

Settled(k) == k.pc \in {"returned", "threw"}

AttemptsOf(log) == SelectSeq(log, LAMBDA e : e.ev = "attempt")

Is2xx(o) == o.kind = "response" /\ o.status \in 200..299

\* C1: one call issues the attempts 1, 2, ... consecutively, never more than
\* its budget `retries` (the first one counted), and a successful (2xx)
\* attempt is the last one: the call has returned and issues nothing after it.
C1_AttemptBudget ==
    \A c \in Started :
       LET k == calls[c]
           a == AttemptsOf(k.log)
       IN  /\ k.attempt >= 1
           /\ k.attempt <= k.retries
           /\ Len(a) = k.attempt
           /\ \A i \in 1..Len(a) : a[i].n = i
           /\ Len(k.seen) = (IF k.pc = "inflight" THEN k.attempt - 1 ELSE k.attempt)
           /\ \A i \in 1..Len(k.seen) :
                 Is2xx(k.seen[i]) <=> (k.pc = "returned" /\ i = k.attempt)
           /\ k.pc = "returned" => k.log[Len(k.log)] = AttemptEv(k.attempt)

\* a call with budget 3 that returned at its second attempt
C1_Witness ==
    \E c \in Started :
       /\ calls[c].pc = "returned"
       /\ calls[c].retries = 3
       /\ calls[c].attempt = 2
       /\ ~Is2xx(calls[c].seen[1])

\* C2: the sleep right before attempt n >= 2 is 200 * 2^(n-2) ms (200 before
\* attempt 2, 400 before attempt 3), exactly one sleep lies between two
\* attempts, nothing precedes attempt 1 and no sleep follows the final attempt.
C2_Backoff ==
    \A c \in Started :
       LET k == calls[c]
           log == k.log
       IN  /\ log[1] = AttemptEv(1)
           /\ \A i \in 1..Len(log) :
                 /\ (log[i].ev = "attempt" /\ log[i].n >= 2) =>
                       /\ i > 1
                       /\ log[i - 1] = SleepEv(200 * 2 ^ (log[i].n - 2))
                 /\ log[i] = AttemptEv(2) => log[i - 1].n = 200
                 /\ log[i] = AttemptEv(3) => log[i - 1].n = 400
                 /\ log[i].ev = "sleep" =>
                       /\ i > 1
                       /\ log[i - 1].ev = "attempt"
                       /\ log[i].n = 200 * 2 ^ (log[i - 1].n - 1)
           /\ Settled(k) => log[Len(log)].ev = "attempt"
           /\ k.pc = "sleeping" <=> log[Len(log)].ev = "sleep"

\* fails attempts 1 and 2, succeeds on attempt 3: sleeps 200 then 400
C2_Witness ==
    \E c \in Started :
       /\ calls[c].pc = "returned"
       /\ calls[c].log = <<AttemptEv(1), SleepEv(200), AttemptEv(2),
                           SleepEv(400), AttemptEv(3)>>

\* what the catch block receives for what the upstream did to an attempt
ErrorFor(o, err) ==
    /\ o.kind = "abort" => err.name = "AbortError"
    /\ o.kind = "network" => err.name = "TypeError"
    /\ o.kind = "response" => (err.name = "Error" /\ err.status = o.status)

\* C3: when all `retries` attempts failed the call has thrown, it returned no
\* response, and the error thrown is the one of the last attempt.
C3_LastError ==
    \A c \in Started :
       LET k == calls[c]
       IN  /\ Len(k.outs) = k.retries => k.pc = "threw"
           /\ k.pc = "threw" =>
                 /\ k.status = NoStatus
                 /\ Len(k.outs) = k.attempt
                 /\ k.attempt = k.retries
                 /\ k.err = k.outs[k.attempt]
                 /\ k.err.at = k.attempt
                 /\ ErrorFor(k.seen[k.attempt], k.err)

\* three failures of different kinds: an HTTP error first, a timeout last
C3_Witness ==
    \E c \in Started :
       /\ calls[c].pc = "threw"
       /\ calls[c].retries = 3
       /\ calls[c].outs[1].name = "Error"
       /\ calls[c].outs[2].name = "TypeError"
       /\ calls[c].err.name = "AbortError"

\* C4: a call never returns a non-2xx response; every non-2xx response is
\* caught as the failure of its attempt (an error carrying the status), uses
\* up that attempt like any other failure, and when it is the last attempt
\* the thrown error carries its status.
C4_Non2xxFails ==
    \A c \in Started :
       LET k == calls[c]
       IN  /\ k.pc = "returned" => k.status \in 200..299
           /\ k.pc = "returned" => k.seen[k.attempt].status = k.status
           /\ \A i \in 1..Len(k.seen) :
                 (k.seen[i].kind = "response" /\ k.seen[i].status \notin 200..299) =>
                    /\ i <= Len(k.outs)
                    /\ k.outs[i] = Error("Error", k.seen[i].status, i)
           /\ Len(k.outs) = Len(SelectSeq(k.seen, LAMBDA o : ~Is2xx(o)))
           /\ k.pc = "threw" => Len(k.seen) = k.retries
           /\ (k.pc = "threw" /\ k.seen[k.attempt].kind = "response") =>
                 k.err.status = k.seen[k.attempt].status

\* 404, then a connection failure, then 304 on the last attempt
C4_Witness ==
    \E c \in Started :
       /\ calls[c].pc = "threw"
       /\ calls[c].seen = <<[kind |-> "response", status |-> 404],
                            [kind |-> "network", status |-> NoStatus],
                            [kind |-> "response", status |-> 304]>>
       /\ calls[c].err.status = 304

(***************************************************************************)
(* Claims about getBlockTxs (checked under SpecPager / FairPager).         *)
(***************************************************************************)
PageLengths == [i \in 1..Len(pg.pages) |-> Len(pg.pages[i])]

RECURSIVE Flatten(_)
Flatten(pages) ==
    IF pages = <<>> THEN <<>> ELSE Head(pages) \o Flatten(Tail(pages))

Range(seq) == {seq[i] : i \in 1..Len(seq)}

NoDuplicates(seq) == Cardinality(Range(seq)) = Len(seq)

PairwiseDisjoint(pages) ==
    \A i, j \in 1..Len(pages) : i < j => Range(pages[i]) \cap Range(pages[j]) = {}

\* C5: the call is done exactly when the page just appended is shorter than
\* 25 (an empty page and a short first page included), no page before the
\* last one is short, and after a page of 25 the next request is issued once
\* the 50 ms delay is over; pages of 25, 25, 25, 10 end the call after 4
\* requests with 85 transactions.
C5_StopsAtShortPage ==
    (pg.pc # "idle" /\ ~pg.over) =>
       LET n == Len(pg.pages)
       IN  /\ \A i \in 1..(n - 1) : Len(pg.pages[i]) >= 25
           /\ pg.pc = "done" <=> (n >= 1 /\ Len(pg.pages[n]) < 25)
           /\ pg.pc = "done" => Len(pg.reqs) = n
           /\ (n >= 1 /\ Len(pg.pages[n]) = 25) =>
                 \/ pg.pc = "polite" /\ Len(pg.reqs) = n
                 \/ pg.pc \in {"fetching", "failed"} /\ Len(pg.reqs) = n + 1
           /\ PageLengths = <<25, 25, 25, 10>> =>
                 /\ pg.pc = "done"
                 /\ Len(pg.reqs) = 4
                 /\ Len(pg.all) = 85

\* pages of 25, 25, 25, 10
C5_Witness ==
    /\ pg.pc = "done"
    /\ ~pg.over
    /\ PageLengths = <<25, 25, 25, 10>>
    /\ Len(pg.all) = 85

\* C6: the accumulated sequence is the concatenation of the pages received,
\* in the order received and each in its own order; when the pages are
\* pairwise disjoint it holds no identifier twice.
C6_Concatenation ==
    ~pg.over =>
       /\ pg.all = Flatten(pg.pages)
       /\ PairwiseDisjoint(pg.pages) => NoDuplicates(pg.all)

\* two disjoint pages, 25 then 10 transactions
C6_Witness ==
    /\ pg.pc = "done"
    /\ ~pg.over
    /\ Len(pg.pages) = 2
    /\ pg.all = Ids(0, 35)

Running == pg.pc \in {"fetching", "polite"}

Ended == pg.pc \in {"done", "failed"}

\* C7: every call of getBlockTxs ends, with its sequence or with a failure,
\* whatever the upstream does (every fetch terminating).
C7_EndsForEveryUpstream == Running ~> Ended

\* What does hold of getBlockTxs: a call ends whenever the upstream serves the
\* finitely many transactions of the block by offset; the loop goes on only
\* while every page received was full; and every call starts from the
\* no-offset first page with nothing accumulated.
C7_EndsForFiniteBlock ==
    /\ (up.honest /\ Running) ~> Ended
    /\ [](pg.pc # "idle" => pg.reqs[1] = FirstPageUrl)
    /\ []((Running /\ ~pg.over) => \A i \in 1..Len(pg.pages) : Len(pg.pages[i]) >= PAGE_SIZE)
    /\ []((pg.pc = "fetching" /\ Len(pg.reqs) = 1) =>
             (pg.all = <<>> /\ pg.start = 0 /\ pg.url = FirstPageUrl))

\* a block of 85 transactions served by offset: the call is done with all 85
C7_Witness ==
    /\ up.honest
    /\ up.n = 85
    /\ pg.pc = "done"
    /\ pg.all = Ids(0, 85)

(***************************************************************************)
(* The payment flow and the two mains.                                     *)
(***************************************************************************)
\* the causes recorded for a step of a flow's trail
CausesOf(flow, step) ==
    {flow.trail[i].cause : i \in {j \in 1..Len(flow.trail) : flow.trail[j].step = step}}

Failed(flow, step) == CausesOf(flow, step) \ {""} # {}

Succeeded(flow, step) == CausesOf(flow, step) = {""}

TxidsOf(txs) == {txs[i].txid : i \in 1..Len(txs)}

\* the entry a map holds for txid once the entries of txs were set in order:
\* the last one with that id
LastWith(txs, txid) ==
    txs[CHOOSE i \in 1..Len(txs) :
          /\ txs[i].txid = txid
          /\ \A j \in (i + 1)..Len(txs) : txs[j].txid # txid]

\* C8: when every attempt on the mempool endpoint failed, getAddressMempoolTxs
\* returns the empty list and main goes on: the failure sets no exit code, and
\* once the confirmed page has arrived one result is written whose tip height
\* is the fetched one and whose payments are exactly the transactions of the
\* confirmed page that pay the address, each with the confirmations of its
\* block (all blocks served are at height 91).
C8_MempoolFailureTolerated ==
    "fetch" \in CausesOf(pay, "mempool") =>
        /\ pay.mem = "ok"
        /\ pay.mempool = <<>>
        /\ ~Failed(pay, "confirmed") => pay.exitCode = 0
        /\ (pay.conf = "ok" /\ pay.pc = "exit") =>
              /\ Len(pay.out) = 1
              /\ pay.out[1].tip_height = pay.tip
              /\ {pay.out[1].payments[i].txid : i \in 1..Len(pay.out[1].payments)}
                    = {txid \in TxidsOf(pay.confirmed) :
                         ExtractIncomingAmount(pay.address,
                                               LastWith(pay.confirmed, txid)) > 0}
              /\ \A i \in 1..Len(pay.out[1].payments) :
                    LET p == pay.out[1].payments[i]
                    IN /\ p.confirmations = pay.tip - 91 + 1
                       /\ p.amount_sats =
                             ExtractIncomingAmount(pay.address,
                                                   LastWith(pay.confirmed, p.txid))

\* the mempool fetch threw, the confirmed page held an incoming transaction,
\* and the result was written with it
C8_Witness ==
    /\ "fetch" \in CausesOf(pay, "mempool")
    /\ Len(pay.out) = 1
    /\ pay.out[1].payments # <<>>
    /\ pay.exitCode = 0

\* C9: in both flows a result is written at most once, and only when every
\* step but the mempool fetch succeeded (then with exit code 0); a failure of
\* the tip height, tip hash, block metadata, block pages or confirmed page,
\* by exhausted retries or by an invalid response, ends the run with a
\* non-zero exit code and nothing written.
C9_ResultOnlyOnSuccess ==
    /\ Len(chain.out) <= 1
    /\ Len(pay.out) <= 1
    /\ chain.out # <<>> =>
          /\ \A step \in {"height", "hash", "meta", "txs"} : Succeeded(chain, step)
          /\ chain.exitCode = 0
          /\ chain.pc = "exit"
    /\ pay.out # <<>> =>
          /\ \A step \in {"tip", "confirmed"} : Succeeded(pay, step)
          /\ pay.exitCode = 0
          /\ pay.pc = "exit"
    /\ \A step \in {"height", "hash", "meta", "txs"} :
          Failed(chain, step) =>
              /\ CausesOf(chain, step) \subseteq {"fetch", "body", "pager"}
              /\ chain.exitCode # 0
              /\ chain.out = <<>>
              /\ chain.pc = "exit"
    /\ \A step \in {"tip", "confirmed"} :
          Failed(pay, step) =>
              /\ CausesOf(pay, step) \subseteq {"fetch", "body"}
              /\ pay.exitCode # 0
              /\ pay.out = <<>>
              /\ pay.pc = "exit"

\* the pager failed after a first full page had arrived, when height, hash
\* and metadata had all been read: exit code 1, nothing written
C9_Witness ==
    /\ Failed(chain, "txs")
    /\ Len(pg.pages) >= 1
    /\ Succeeded(chain, "meta")
    /\ chain.exitCode = 1
    /\ chain.out = <<>>

\* C10: no two payments of a result have the same txid, and a txid listed by
\* the mempool endpoint is scored from its mempool entry, whatever the
\* confirmed page said about it: the payment, if the mempool entry pays the
\* address, has that entry's amount and 0 confirmations, and there is no
\* payment if it does not.
C10_MempoolEntryWins ==
    pay.out # <<>> =>
        LET ps == pay.out[1].payments
            merged == MergeTxs(pay.confirmed, pay.mempool)
        IN /\ \A i, j \in 1..Len(ps) : ps[i].txid = ps[j].txid => i = j
           /\ \A i, j \in 1..Len(merged) : merged[i].txid = merged[j].txid => i = j
           /\ \A txid \in TxidsOf(pay.mempool) :
                 LET m == LastWith(pay.mempool, txid)
                     amount == ExtractIncomingAmount(pay.address, m)
                 IN IF amount > 0
                    THEN \E i \in 1..Len(ps) :
                            /\ ps[i].txid = txid
                            /\ ps[i].amount_sats = amount
                            /\ ps[i].confirmations = 0
                    ELSE \A i \in 1..Len(ps) : ps[i].txid # txid

\* t1 is in the confirmed page at height 91 with 700 incoming and in the
\* mempool list with 700 incoming: its payment has 0 confirmations
C10_Witness ==
    /\ pay.out # <<>>
    /\ \E i \in 1..Len(pay.confirmed) :
          /\ pay.confirmed[i].txid = "t1"
          /\ pay.confirmed[i].status.block_height = 91
          /\ ExtractIncomingAmount(pay.address, pay.confirmed[i]) = 700
    /\ "t1" \in TxidsOf(pay.mempool)
    /\ \E i \in 1..Len(pay.out[1].payments) :
          /\ pay.out[1].payments[i].txid = "t1"
          /\ pay.out[1].payments[i].confirmations = 0

(***************************************************************************)
(* The functions of the payment check.                                     *)
(***************************************************************************)
\* the sum of f over a finite set of indices
RECURSIVE SumAt(_, _)
SumAt(f, I) ==
    IF I = {} THEN 0
    ELSE LET i == CHOOSE k \in I : TRUE IN f[i] + SumAt(f, I \ {i})

\* the outputs of vout that name address as their destination
PayingTo(address, vout) ==
    {i \in 1..Len(vout) :
        /\ "scriptpubkey_address" \in DOMAIN vout[i]
        /\ vout[i].scriptpubkey_address # ""
        /\ vout[i].scriptpubkey_address = address}

\* C11: extractIncomingAmount(address, tx) is the sum of value over the
\* outputs of tx whose destination address is there and is the very string
\* address: other addresses (also ones differing in case only), outputs
\* without an address and outputs of value 0 add nothing, and a transaction
\* without an output list gives 0.
C11_IncomingAmount ==
    calc.fn = "extractIncomingAmount" =>
        IF "vout" \in DOMAIN calc.tx
        THEN LET values == [i \in 1..Len(calc.tx.vout) |-> calc.tx.vout[i].value]
             IN calc.result = SumAt(values, PayingTo(calc.address, calc.tx.vout))
        ELSE calc.result = 0

\* 500 to A, 50 to a and 900 to no address: 500 for A
C11_Witness ==
    /\ calc.fn = "extractIncomingAmount"
    /\ calc.address = "A"
    /\ "vout" \in DOMAIN calc.tx
    /\ calc.tx.vout = <<Output("A", 500), Output("a", 50), Output("", 900)>>
    /\ calc.result = 500

\* the entry of the merged map for txid: its last mempool entry, or else its
\* last confirmed entry
MergedEntry(confirmed, mempool, txid) ==
    IF txid \in TxidsOf(mempool) THEN LastWith(mempool, txid)
    ELSE LastWith(confirmed, txid)

MergedIds == TxidsOf(calc.args.confirmed) \cup TxidsOf(calc.args.mempool)

MergedTx(txid) == MergedEntry(calc.args.confirmed, calc.args.mempool, txid)

\* C12: the payments reported are exactly the merged transactions that pay
\* the address a strictly positive amount, one payment each, with that
\* amount.
C12_ExactlyIncoming ==
    calc.fn = "payments" =>
        LET ps == calc.result.payments
            incoming == {txid \in MergedIds :
                           ExtractIncomingAmount(calc.args.address, MergedTx(txid)) > 0}
        IN /\ \A i \in 1..Len(ps) : ps[i].amount_sats > 0
           /\ {ps[i].txid : i \in 1..Len(ps)} = incoming
           /\ Len(ps) = Cardinality(incoming)
           /\ \A i \in 1..Len(ps) :
                 ps[i].amount_sats =
                    ExtractIncomingAmount(calc.args.address, MergedTx(ps[i].txid))

\* t1 pays A 700 and t2 pays A nothing: one payment, for t1
C12_Witness ==
    /\ calc.fn = "payments"
    /\ MergedIds = {"t1", "t2"}
    /\ ExtractIncomingAmount("A", MergedTx("t2")) = 0
    /\ Len(calc.result.payments) = 1
    /\ calc.result.payments[1].txid = "t1"
    /\ calc.result.payments[1].amount_sats = 700

\* C13: a payment has tip - height + 1 confirmations when its merged
\* transaction is marked confirmed and has a numeric block height (10 for
\* tip 100 and block 91, 1 for the tip block), and 0 otherwise.
C13_Confirmations ==
    calc.fn = "payments" =>
        \A i \in 1..Len(calc.result.payments) :
           LET p == calc.result.payments[i]
               tx == MergedTx(p.txid)
               inBlock == /\ "status" \in DOMAIN tx
                          /\ tx.status.confirmed
                          /\ tx.status.block_height # NoHeight
           IN /\ inBlock => p.confirmations = calc.args.tip - tx.status.block_height + 1
              /\ ~inBlock => p.confirmations = 0
              /\ (inBlock /\ tx.status.block_height = 91) => p.confirmations = 10
              /\ (inBlock /\ tx.status.block_height = 100) => p.confirmations = 1

\* t1 in block 91, t2 unconfirmed although with a height: 10 and 0
C13_Witness ==
    /\ calc.fn = "payments"
    /\ Len(calc.result.payments) = 2
    /\ MergedIds = {"t1", "t2"}
    /\ \A txid \in MergedIds : "status" \in DOMAIN MergedTx(txid)
    /\ MergedTx("t1").status = TxStatus(TRUE, 91)
    /\ MergedTx("t2").status = TxStatus(FALSE, 91)
    /\ \E i, j \in 1..2 :
          /\ calc.result.payments[i].txid = "t1"
          /\ calc.result.payments[i].confirmations = 10
          /\ calc.result.payments[j].txid = "t2"
          /\ calc.result.payments[j].confirmations = 0

\* how often x occurs in seq
Count(seq, x) == Cardinality({i \in 1..Len(seq) : seq[i] = x})

Permutation(a, b) ==
    /\ Len(a) = Len(b)
    /\ \A x \in Range(a) \cup Range(b) : Count(a, x) = Count(b, x)

\* more confirmations first; with equal confirmations, no smaller amount first
Ordered(ps) ==
    \A i \in 1..(Len(ps) - 1) :
       \/ ps[i].confirmations > ps[i + 1].confirmations
       \/ /\ ps[i].confirmations = ps[i + 1].confirmations
          /\ ps[i].amount_sats >= ps[i + 1].amount_sats

\* C14: the sorted list is a permutation of the payments pushed, by
\* confirmations descending and then by amount descending; so is the list of
\* a result object.
C14_SortedPayments ==
    /\ calc.fn = "sort" =>
          /\ Permutation(calc.result, calc.payments)
          /\ Ordered(calc.result)
    /\ calc.fn = "payments" => Ordered(calc.result.payments)

\* 200 unconfirmed, 200 with 10 confirmations, 700 with 10: sorted to 700 and
\* 200 with 10 confirmations, then the unconfirmed one
C14_Witness ==
    /\ calc.fn = "sort"
    /\ Len(calc.payments) = 3
    /\ ~Ordered(calc.payments)
    /\ <<calc.payments[1].amount_sats, calc.payments[1].confirmations>> = <<200, 0>>
    /\ <<calc.payments[2].amount_sats, calc.payments[2].confirmations>> = <<200, 10>>
    /\ <<calc.payments[3].amount_sats, calc.payments[3].confirmations>> = <<700, 10>>
    /\ calc.result = <<calc.payments[3], calc.payments[2], calc.payments[1]>>

AddressCalls == {"getAddressTxs", "getAddressMempoolTxs"}

\* C15: the tip height fetch, the confirmed page fetch and the mempool fetch
\* are all issued before the response of any of them is awaited: while main
\* awaits the tip height, the two address fetches are in flight too.
C15_AllThreeConcurrent ==
    pay.pc = "tip" => AddressCalls \subseteq Started

\* C15, amended: main awaits the tip height first; the confirmed page fetch
\* and the mempool fetch are issued only once the tip height is there, and
\* then both in the same step, before the response of either is awaited.
C15_TipThenPair ==
    /\ [](pay.pc = "tip" =>
             /\ "getTipHeight" \in Started
             /\ AddressCalls \cap Started = {}
             /\ pay.conf = "none"
             /\ pay.mem = "none")
    /\ [](AddressCalls \cap Started # {} => Succeeded(pay, "tip"))
    /\ [](pay.conf = "none" <=> pay.mem = "none")
    /\ [](pay.conf = "pending" => "getAddressTxs" \in Started)
    /\ [](pay.mem = "pending" => "getAddressMempoolTxs" \in Started)
    /\ [][("getAddressTxs" \notin Started /\ "getAddressTxs" \in Started')
             <=> ("getAddressMempoolTxs" \notin Started
                     /\ "getAddressMempoolTxs" \in Started')]_vars

\* the mempool list has arrived while the confirmed page is still in flight
C15_Witness ==
    /\ pay.pc = "all"
    /\ pay.conf = "pending"
    /\ pay.mem = "ok"
    /\ "getAddressTxs" \in Started
    /\ Succeeded(pay, "tip")

\* text is a plain decimal integer: digits only, after an optional sign
PlainInteger(text) ==
    LET digits == IF text # <<>> /\ Head(text) \in {"-", "+"} THEN Tail(text) ELSE text
    IN  /\ digits # <<>>
        /\ \A i \in 1..Len(digits) : IsDigit(digits[i])

\* the number written by decimal digits
RECURSIVE DecimalValue(_)
DecimalValue(digits) ==
    IF digits = <<>> THEN 0
    ELSE 10 * DecimalValue(SubSeq(digits, 1, Len(digits) - 1))
            + DigitValue(digits[Len(digits)])

IntegerOf(text) ==
    IF Head(text) = "-" THEN 0 - DecimalValue(Tail(text))
    ELSE IF Head(text) = "+" THEN DecimalValue(Tail(text))
    ELSE DecimalValue(text)

\* C16: getTipHeight returns the integer the trimmed body denotes when that
\* is a plain decimal integer, and fails for every other body: empty text,
\* text that is no number, digits followed by other characters.
C16_StrictTipHeight ==
    calc.fn = "getTipHeight" =>
        IF PlainInteger(Trim(calc.text))
        THEN ~calc.result.failed /\ calc.result.height = IntegerOf(Trim(calc.text))
        ELSE calc.result.failed

\* the flow read ESPLORA_API: it got past the checks that come before
ReadEnv(flow) ==
    /\ flow.pc # "idle"
    /\ CausesOf(flow, "config") \subseteq {"api"}

\* the run ended at startup: exit code set, no request issued, nothing written
RefusedAtStartup(flow) ==
    /\ flow.pc = "exit"
    /\ flow.exitCode # 0
    /\ flow.out = <<>>
    /\ Len(flow.trail) = 1
    /\ Started = {}

\* C17: in both scripts a base URL setting that is empty or does not contain
\* "testnet" (in any case) ends the run at startup with a non-zero exit code,
\* before any request and without a result.
C17_InvalidBaseUrlFatal ==
    \A flow \in {chain, pay} :
       (ReadEnv(flow) /\ (flow.envApi = "" \/ ~IsTestnetApi(flow.envApi)))
          => RefusedAtStartup(flow)

\* C17, amended: in both scripts a non-empty base URL setting that does not
\* contain "testnet" (in any case) ends the run at startup with exit code 2,
\* before any request and without a result; an empty or unset setting is not
\* refused: the run goes on with the default testnet URL, and a setting that
\* contains "testnet" is used without its trailing slashes.
C17_NonTestnetUrlFatal ==
    \A flow \in {chain, pay} :
       ReadEnv(flow) =>
          /\ (flow.envApi # "" /\ ~IsTestnetApi(flow.envApi)) =>
                (RefusedAtStartup(flow) /\ flow.exitCode = 2)
          /\ flow.envApi = "" =>
                /\ flow.apiBase = "https://blockstream.info/testnet/api"
                /\ ~Failed(flow, "config")
          /\ flow.envApi = "https://example.org/TestNet/api/" =>
                /\ flow.apiBase = "https://example.org/TestNet/api"
                /\ ~Failed(flow, "config")

\* the payment check refused the mainnet URL
C17_Witness ==
    /\ pay.envApi = "https://blockstream.info/api"
    /\ RefusedAtStartup(pay)
    /\ pay.exitCode = 2

(***************************************************************************)
(* The contracts.                                                          *)
(***************************************************************************)
SecureStorageOf(c) == <<c.owner, c.storedData, c.hashedValue, c.events>>

\* C18: the owner of SecureStorage is the account that deployed it, for
\* good; setValue and setHashedValue go through only when the owner sends
\* them, and sent by any other account they revert with "Only owner" and
\* leave the stored value, the hashed value, the owner and the log as they
\* were.
C18_OnlyOwnerWrites ==
    /\ [](secure.deployed =>
             /\ secure.owner = secure.events[1].changedBy
             /\ secure.last.fn \in {"setValue", "setHashedValue"} =>
                   (secure.last.reverted <=> secure.last.sender # secure.owner)
             /\ secure.last.reverted => secure.last.reason = "Only owner"
             /\ \A i \in 1..Len(secure.events) :
                   secure.events[i].changedBy = secure.owner)
    /\ [][secure.deployed =>
             /\ secure'.owner = secure.owner
             /\ secure'.last.reverted =>
                   SecureStorageOf(secure') = SecureStorageOf(secure)
             /\ (secure' # secure /\ ~secure'.last.reverted) =>
                   /\ secure'.last.sender = secure.owner
                   /\ secure'.last.fn = "setValue" =>
                         /\ secure'.storedData = secure'.last.arg
                         /\ secure'.hashedValue = secure.hashedValue
                   /\ secure'.last.fn = "setHashedValue" =>
                         /\ secure'.hashedValue = secure'.last.arg
                         /\ secure'.storedData = secure.storedData]_vars

\* after the owner has set a hash, addr1 tries to set the value and is
\* turned down
C18_Witness ==
    /\ secure.deployed
    /\ secure.owner = "owner"
    /\ secure.hashedValue = "0xa1"
    /\ secure.storedData = "Initial Secure"
    /\ secure.last = [Receipt("setValue", "addr1", "New Secure Value") EXCEPT
                        !.reverted = TRUE, !.reason = "Only owner"]

\* C19: getValue(i) and updateValue(i, v) of StorageArray go through exactly
\* when i is less than the length; for any other i, the largest uint256
\* included, they revert with "Index out of bounds" and the array is as it
\* was.  getValue returns element i and updateValue writes element i only.
C19_IndexChecked ==
    /\ [](arr.last.fn \in {"getValue", "updateValue"} =>
             /\ arr.last.reverted <=> arr.last.index >= Len(arr.dataArray)
             /\ arr.last.reverted => arr.last.reason = "Index out of bounds"
             /\ ~arr.last.reverted =>
                   arr.dataArray[arr.last.index + 1] =
                      (IF arr.last.fn = "getValue" THEN arr.last.returned
                       ELSE arr.last.value))
    /\ [][arr'.last.fn \in {"getValue", "updateValue"} =>
             /\ Len(arr'.dataArray) = Len(arr.dataArray)
             /\ \A i \in 1..Len(arr.dataArray) :
                   (arr'.last.reverted \/ arr'.last.fn = "getValue"
                      \/ i # arr'.last.index + 1)
                   => arr'.dataArray[i] = arr.dataArray[i]]_vars

\* on an array of two elements updateValue with the largest uint256 reverts
C19_Witness ==
    /\ Len(arr.dataArray) = 2
    /\ arr.last.fn = "updateValue"
    /\ arr.last.index = MaxUint256
    /\ arr.last.reverted
    /\ arr.last.reason = "Index out of bounds"

\* C20: removeLastValue reverts with "Array is empty" on an empty array and
\* otherwise removes the last element and nothing else, returns it and emits
\* ValueRemoved with it and the index it had; as long as only addValue and
\* removeLastValue change the array, its length is the initial length plus
\* the adds minus the removes that went through.
C20_RemoveLast ==
    /\ [](arr.last.fn = "removeLastValue" =>
             /\ arr.last.reverted =>
                   (arr.last.reason = "Array is empty" /\ arr.dataArray = <<>>)
             /\ ~arr.last.reverted =>
                   arr.last.logs = <<ValueRemoved(arr.last.returned, Len(arr.dataArray),
                                                  arr.last.sender)>>)
    /\ [](~arr.cleared =>
             /\ Len(arr.dataArray) = arr.initial + arr.adds - arr.removes
             /\ arr.initial + arr.adds - arr.removes >= 0)
    /\ [][(arr'.last.fn = "removeLastValue" /\ arr' # arr) =>
             IF arr.dataArray = <<>>
             THEN arr'.last.reverted /\ arr'.dataArray = <<>>
             ELSE /\ ~arr'.last.reverted
                  /\ Len(arr'.dataArray) = Len(arr.dataArray) - 1
                  /\ \A i \in 1..Len(arr'.dataArray) : arr'.dataArray[i] = arr.dataArray[i]
                  /\ arr'.last.returned = arr.dataArray[Len(arr.dataArray)]
                  /\ arr'.removes = arr.removes + 1]_vars

\* two initial values, one added, two removed: one left, the last removal
\* reporting index 1
C20_Witness ==
    /\ arr.initial = 2
    /\ arr.adds = 1
    /\ arr.removes = 2
    /\ ~arr.cleared
    /\ Len(arr.dataArray) = 1
    /\ arr.last.fn = "removeLastValue"
    /\ arr.last.logs # <<>>
    /\ arr.last.logs[1].index = 1

\* C21: addValue(v), whoever sends it, puts v at the index that was the
\* length, emits ValueAdded(v, that index, sender), makes the array one
\* longer and leaves every element that was there at its index;
\* updateValue(i, v) that goes through changes element i to v and nothing
\* else, the length included.
C21_AddAndUpdateFrame ==
    [][/\ arr'.last.fn = "addValue" =>
             /\ Len(arr'.dataArray) = Len(arr.dataArray) + 1
             /\ arr'.dataArray[Len(arr.dataArray) + 1] = arr'.last.value
             /\ \A i \in 1..Len(arr.dataArray) : arr'.dataArray[i] = arr.dataArray[i]
             /\ arr'.last.logs =
                   <<ValueAdded(arr'.last.value, Len(arr.dataArray), arr'.last.sender)>>
             /\ ~arr'.last.reverted
       /\ (arr'.last.fn = "updateValue" /\ ~arr'.last.reverted) =>
             /\ Len(arr'.dataArray) = Len(arr.dataArray)
             /\ arr'.dataArray[arr'.last.index + 1] = arr'.last.value
             /\ \A i \in 1..Len(arr.dataArray) :
                   i # arr'.last.index + 1 => arr'.dataArray[i] = arr.dataArray[i]
             /\ arr'.last.logs =
                   <<ValueUpdated(arr.dataArray[arr'.last.index + 1], arr'.last.value,
                                  arr'.last.index, arr'.last.sender)>>]_arr

\* addr1 has added a value to an array of two: it is element 2 of three
C21_Witness ==
    /\ arr.last.fn = "addValue"
    /\ arr.last.sender = "addr1"
    /\ Len(arr.dataArray) = 3
    /\ arr.dataArray[3] = arr.last.value
    /\ arr.last.logs[1].index = 2

\* the addresses a non-empty value is stored for
HoldersOf(c) == {k \in Keys : c.dataMapping[k] # ""}

\* C22: in every state of a deployed StorageMapping, getAddressCount is the
\* number of distinct addresses with a non-empty stored value, which is
\* also the length of getAllAddresses and the second component of
\* getContractInfo; hasValue(k) holds exactly for the addresses
\* getAllAddresses lists, and none is listed twice.
C22_CountsAgree ==
    mp.deployed =>
        /\ MapGetAddressCount(mp) = Cardinality(HoldersOf(mp))
        /\ MapGetAddressCount(mp) = Len(MapGetAllAddresses(mp))
        /\ MapGetContractInfo(mp)[2] = Cardinality(HoldersOf(mp))
        /\ \A k \in Keys : MapHasValue(mp, k) <=> k \in Range(MapGetAllAddresses(mp))
        /\ NoDuplicates(MapGetAllAddresses(mp))

\* owner has replaced its value while addr1, tracked as well, has none left
C22_Witness ==
    /\ mp.deployed
    /\ mp.last.fn = "setValue"
    /\ mp.last.sender = "owner"
    /\ mp.addressList = <<"owner", "addr1">>
    /\ mp.dataMapping["owner"] = "Value2"
    /\ mp.dataMapping["addr1"] = ""
    /\ MapGetAddressCount(mp) = 1

\* C23: setValueFor for the zero address reverts with "Invalid address"; a
\* deployment whose lists differ in length or that has the zero address
\* among its keys reverts and leaves no contract; a call that reverted
\* left every stored value and the tracked addresses as they were.
C23_InvalidCallsRevert ==
    [][/\ (mp'.last.fn = "setValueFor" /\ mp'.last.key = ZeroAddress) =>
             (mp'.last.reverted /\ mp'.last.reason = "Invalid address")
       /\ (/\ mp'.last.fn = "constructor"
           /\ \/ Len(mp'.last.initialKeys) # Len(mp'.last.initialValues)
              \/ ZeroAddress \in Range(mp'.last.initialKeys)) =>
             (mp'.last.reverted /\ ~mp'.deployed)
       /\ mp'.last.reverted =>
             /\ mp'.dataMapping = mp.dataMapping
             /\ mp'.addressList = mp.addressList
             /\ mp'.addressExists = mp.addressExists
             /\ mp'.deployed = mp.deployed]_mp

\* setValueFor for the zero address has reverted on a contract that holds
\* two values
C23_Witness ==
    /\ mp.deployed
    /\ mp.last.fn = "setValueFor"
    /\ mp.last.key = ZeroAddress
    /\ mp.last.reverted
    /\ mp.last.reason = "Invalid address"
    /\ Len(mp.addressList) = 2
    /\ Cardinality(HoldersOf(mp)) = 2

\* C24: setValueFor(key, value) sent by an account other than key while
\* some address has a value leaves the value stored for key as it was.
C24_OnlyKeyOrEmpty ==
    [][(/\ mp'.last.fn = "setValueFor"
        /\ mp'.last.sender # mp'.last.key
        /\ MapGetAddressCount(mp) > 0) =>
          mp'.dataMapping[mp'.last.key] = mp.dataMapping[mp'.last.key]]_mp

\* C25: setValue, setValueFor, deleteValue and deleteValueFor applied to a
\* key leave what getValueFor returns for every other address as it was.
C25_OtherKeysUntouched ==
    [][mp'.last.fn \in {"setValue", "setValueFor", "deleteValue", "deleteValueFor"} =>
          \A other \in Keys \ {mp'.last.key} :
              MapGetValueFor(mp', other) = MapGetValueFor(mp, other)]_mp

\* addr2 has deleted the value of owner; that of addr1 is still there
C25_Witness ==
    /\ mp.last.fn = "deleteValueFor"
    /\ mp.last.sender = "addr2"
    /\ mp.last.key = "owner"
    /\ mp.last.logs = <<ValueDeleted("owner", "Value2", "addr2")>>
    /\ mp.dataMapping["owner"] = ""
    /\ mp.dataMapping["addr1"] = "Value1"

\* C26: within one getBlockTxs call a request is in flight only while the
\* call awaits it; every request but the one awaited has had its page
\* appended, so the request for page n+1 is issued when pages 1..n are in
\* the accumulated result, and none is outstanding while the call pauses or
\* after it has returned.
C26_OnePageAtATime ==
    ~pg.over =>
       /\ calls["getBlockTxs"].pc # "idle" => pg.pc = "fetching"
       /\ pg.pc = "fetching" =>
             /\ calls["getBlockTxs"].pc # "idle"
             /\ Len(pg.reqs) = Len(pg.pages) + 1
             /\ calls["getBlockTxs"].url = pg.reqs[Len(pg.reqs)]
             /\ pg.all = Flatten(pg.pages)
       /\ pg.pc \in {"polite", "done"} => Len(pg.reqs) = Len(pg.pages)

\* the third page is being fetched, two pages of 25 are in the result
C26_Witness ==
    /\ pg.pc = "fetching"
    /\ ~pg.over
    /\ calls["getBlockTxs"].pc = "inflight"
    /\ Len(pg.reqs) = 3
    /\ PageLengths = <<25, 25>>
    /\ Len(pg.all) = 50

\* C27: the first page request of a getBlockTxs call has no offset and the
\* k-th request after it has the offset 25*k, whatever the lengths of the
\* pages received: the offsets ascend by 25 and are multiples of 25.
C27_OffsetsBy25 ==
    /\ \A i \in 1..Len(pg.reqs) :
          pg.reqs[i] = IF i = 1 THEN Url("block/txs", NoOffset)
                       ELSE Url("block/txs", 25 * (i - 1))
    /\ \A i \in 2..Len(pg.reqs) :
          /\ pg.reqs[i].off % 25 = 0
          /\ i > 2 => pg.reqs[i].off = pg.reqs[i - 1].off + 25
    /\ (pg.pc = "fetching" /\ ~pg.over) =>
          calls["getBlockTxs"].url = pg.reqs[Len(pg.reqs)]

\* an upstream that sent 26 and then 25 transactions is asked for offset 50
C27_Witness ==
    /\ ~up.honest
    /\ ~pg.over
    /\ PageLengths = <<26, 25>>
    /\ Len(pg.reqs) = 3
    /\ pg.reqs[3].off = 50
    /\ pg.reqs[1].off = NoOffset

\* the last thing the upstream did to the attempts of a call
LastSeen(call) == call.seen[Len(call.seen)]

\* C28: an abort timer is armed only while an attempt is in flight and only
\* for that attempt, so none is left when the call sleeps, has returned or
\* has thrown; when it fires, the attempt it was armed for fails with an
\* AbortError, the attempt counter stays, and the loop either sleeps the
\* backoff of that attempt or, the budget spent, throws the AbortError.
C28_TimeoutAbortsItsAttempt ==
    [][\A c \in CallIds :
          /\ calls'[c].timer # 0 =>
                (calls'[c].pc = "inflight" /\ calls'[c].timer = calls'[c].attempt)
          /\ (/\ Len(calls'[c].seen) = Len(calls[c].seen) + 1
              /\ LastSeen(calls'[c]).kind = "abort") =>
                /\ calls[c].pc = "inflight"
                /\ calls[c].timer = calls[c].attempt
                /\ calls'[c].attempt = calls[c].attempt
                /\ calls'[c].outs =
                      Append(calls[c].outs, Error("AbortError", NoStatus, calls[c].attempt))
                /\ IF calls[c].attempt >= calls[c].retries
                   THEN /\ calls'[c].pc = "threw"
                        /\ calls'[c].err.name = "AbortError"
                        /\ calls'[c].log = calls[c].log
                   ELSE /\ calls'[c].pc = "sleeping"
                        /\ calls'[c].log =
                              Append(calls[c].log, SleepEv(Backoff(calls[c].attempt)))]_calls

\* the first attempt of a call timed out, the second got its response: the
\* call has returned and no timer is left
C28_Witness ==
    /\ calls["direct"].pc = "returned"
    /\ calls["direct"].timer = 0
    /\ calls["direct"].attempt = 2
    /\ Len(calls["direct"].seen) = 2
    /\ calls["direct"].seen[1].kind = "abort"
    /\ calls["direct"].seen[2].kind = "response"

\* C30: a getBlockTxs call returns only when every page it asked for was
\* received and appended and the last one was short; a request whose page
\* did not come (the fetch threw, or the body was no array) makes the call
\* fail, and main then prints no result and exits with code 1, whatever
\* pages had been appended before.
C30_NoPartialResult ==
    ~pg.over =>
       /\ pg.pc = "done" =>
             /\ Len(pg.reqs) = Len(pg.pages)
             /\ Len(pg.pages) >= 1
             /\ LastPage(pg.pages[Len(pg.pages)])
       /\ (Len(pg.reqs) > Len(pg.pages) /\ pg.pc # "fetching") => pg.pc = "failed"
       /\ pg.pc = "failed" => chain.out = <<>>
       /\ (pg.pc = "failed" /\ chain.pc = "exit") => chain.exitCode = 1
       /\ chain.out # <<>> => (pg.pc = "done" /\ chain.out[1].txs = Flatten(pg.pages))

\* the third page failed after two pages of 25 were appended: nothing is
\* printed
C30_Witness ==
    /\ pg.pc = "failed"
    /\ ~pg.over
    /\ PageLengths = <<25, 25>>
    /\ Len(pg.all) = 50
    /\ chain.pc = "exit"
    /\ chain.exitCode = 1
    /\ chain.out = <<>>

\* the flow ended at this step because of the body it read, and nothing is
\* requested any more
EndedOnBody(flow, step) ==
    /\ flow.pc = "exit"
    /\ flow.exitCode = 1
    /\ CausesOf(flow, step) = {"body"}
    /\ flow.trail[Len(flow.trail)].step = step
    /\ Started = {}

\* C29: a tip height body that is no integer, a tip hash body that is empty
\* or only white space, and a page that did not come as an array each end
\* the operation at once, with no request after the one that was answered;
\* no call of the fetcher made by a reader goes beyond the default budget.
C29_InvalidNeverRetried ==
    /\ (Len(chain.read) >= 1 /\ ~PlainInteger(Trim(chain.read[1]))) =>
          EndedOnBody(chain, "height")
    /\ (Len(chain.read) >= 2 /\ Trim(chain.read[2]) = <<>>) =>
          EndedOnBody(chain, "hash")
    /\ (pg.pc = "failed" /\ ~pg.over) =>
          /\ calls["getBlockTxs"].pc = "idle"
          /\ Len(pg.reqs) = Len(pg.pages) + 1
    /\ \A c \in {"getTipHeight", "getTipHash", "getBlockMeta", "getBlockTxs"} :
          calls[c].attempt <= DEFAULT_RETRIES

\* C31: when getBlockTxs has returned, main writes the result object with
\* the height, hash and metadata it read and the transactions the pager
\* accumulated, and ends with exit code 0, whether or not the tx_count of
\* the metadata is the number of transactions; a tx_count that is a number
\* and differs from it is logged as a warning, and that is all.
C31_MismatchOnlyWarns ==
    /\ (chain.pc = "exit" /\ Succeeded(chain, "txs")) =>
          /\ chain.exitCode = 0
          /\ chain.out = <<[height |-> chain.height, hash |-> chain.hash,
                            meta |-> chain.meta, txs |-> pg.all]>>
          /\ chain.warned <=>
                (chain.meta.tx_count # NoCount /\ chain.meta.tx_count # Len(pg.all))
    /\ chain.warned => (chain.pc = "exit" /\ chain.exitCode = 0 /\ Len(chain.out) = 1)

\* the block declares 85 transactions, the pager accumulated 10: the result
\* with the 10 is written and the exit code is 0
C31_Witness ==
    /\ chain.pc = "exit"
    /\ chain.warned
    /\ chain.exitCode = 0
    /\ chain.meta.tx_count = 85
    /\ Len(chain.out) = 1
    /\ Len(chain.out[1].txs) = 10

\* the transactions of a result of the payment flow
PaidTxids(result) == {result.payments[i].txid : i \in 1..Len(result.payments)}

\* C32: the payment flow calls the fetcher for the confirmed transactions
\* once, when main goes from the tip height to Promise.all, and for the url
\* without an offset; when the page has come, full or not, no other request
\* for confirmed transactions is made, and the result holds transactions of
\* that page and of the mempool list only.
C32_FirstPageOnly ==
    [][/\ (calls["getAddressTxs"].pc = "idle" /\ calls'["getAddressTxs"].pc # "idle") =>
             (pay.pc = "tip" /\ pay'.pc = "all" /\ pay.conf = "none")
       /\ calls'["getAddressTxs"].pc # "idle" =>
             /\ calls'["getAddressTxs"].url = Url("address/txs", NoOffset)
             /\ pay'.conf = "pending"
       /\ Cardinality({i \in 1..Len(pay'.trail) : pay'.trail[i].step = "confirmed"}) <= 1
       /\ pay'.out # <<>> =>
             /\ Len(pay'.out) = 1
             /\ PaidTxids(pay'.out[1]) \subseteq
                   TxidsOf(pay'.confirmed) \cup TxidsOf(pay'.mempool)
             /\ Len(pay'.confirmed) <= 25
             /\ pay'.confirmed = FirstPage(LongHistory) =>
                   LongHistory[Len(LongHistory)].txid \notin PaidTxids(pay'.out[1])]_vars

\* the confirmed page was full: the result has its 25 payments, the
\* transaction after them is not in it, and nothing is requested any more
C32_Witness ==
    /\ pay.pc = "exit"
    /\ Len(pay.confirmed) = 25
    /\ pay.mempool = <<>>
    /\ Len(pay.out) = 1
    /\ Len(pay.out[1].payments) = 25
    /\ "f25" \in PaidTxids(pay.out[1])
    /\ "f26" \notin PaidTxids(pay.out[1])
    /\ Started = {}

\* the two calls main awaits together
Pair == {"getAddressTxs", "getAddressMempoolTxs"}

\* C33: while the confirmed-page call and the mempool call both run, a step
\* of one (an attempt failing, timing out, being answered, a backoff
\* ending, the call being taken up by its caller) leaves the attempt
\* counter, timer, state and history of the other as they were; each call
\* counts its own attempts within its own budget.
C33_IndependentCalls ==
    [][/\ \A c \in Pair : \A d \in Pair \ {c} :
             (calls[c].pc # "idle" /\ calls[d].pc # "idle" /\ calls'[c] # calls[c]) =>
                calls'[d] = calls[d]
       /\ \A c \in Pair :
             calls'[c].pc # "idle" =>
                /\ calls'[c].attempt = Len(AttemptsOf(calls'[c].log))
                /\ calls'[c].attempt <= calls'[c].retries
                /\ calls'[c].timer \in {0, calls'[c].attempt}]_calls

\* the confirmed-page call has failed three times and thrown while the
\* mempool call is still in its first attempt, its timer armed
C33_Witness ==
    /\ calls["getAddressTxs"].pc = "threw"
    /\ calls["getAddressTxs"].attempt = 3
    /\ Len(calls["getAddressTxs"].outs) = 3
    /\ calls["getAddressMempoolTxs"].pc = "inflight"
    /\ calls["getAddressMempoolTxs"].attempt = 1
    /\ calls["getAddressMempoolTxs"].timer = 1
    /\ calls["getAddressMempoolTxs"].seen = <<>>

\* C34: in a result of the payment flow, also when blocks were mined
\* between the reading of the tip height and the reading of the address's
\* transactions, no payment has a negative number of confirmations, and a
\* payment confirmed in a block of known height has at least 1.
C34_ConfirmationsNotNegative ==
    calc.fn \in {"payments", "race"} =>
        \A i \in 1..Len(calc.result.payments) :
           LET p == calc.result.payments[i]
               tx == LastWith(calc.args.confirmed \o calc.args.mempool, p.txid)
               inBlock == /\ "status" \in DOMAIN tx
                          /\ tx.status.confirmed
                          /\ tx.status.block_height # NoHeight
           IN /\ p.confirmations >= 0
              /\ inBlock => p.confirmations >= 1
              /\ ~inBlock => p.confirmations = 0

\* C35: in every result of the chain-read flow the top-level height is the
\* height of the metadata, also when the tip moved between the requests.
C35_HeightIsMetaHeight ==
    \A i \in 1..Len(chain.out) : chain.out[i].height = chain.out[i].meta.height

\* C36 as stated: once the payment flow has set a non-zero exit code, no
\* call of the fetcher is running.
C36_NothingInFlightAfterFatal ==
    (pay.pc = "exit" /\ pay.exitCode # 0) => Started = {}

\* C36: once the payment flow has set a non-zero exit code main has
\* returned, no result is or will be written, no call of the fetcher is
\* begun, and neither the tip-height nor the confirmed-page call is running;
\* the mempool call begun together with the confirmed-page call is not
\* cancelled: after a failure of the confirmed page it may still be running,
\* within its own budget, and what it delivers is discarded.
C36_OnlyMempoolCallOutlivesFatal ==
    [][pay'.exitCode # 0 =>
          /\ pay'.pc = "exit"
          /\ pay'.out = <<>>
          /\ {c \in CallIds : calls'[c].pc # "idle"} \subseteq {"getAddressMempoolTxs"}
          /\ calls'["getAddressMempoolTxs"].pc # "idle" =>
                /\ Failed(pay', "confirmed")
                /\ pay'.mem = "pending"
                /\ calls'["getAddressMempoolTxs"].attempt <= DEFAULT_RETRIES
          /\ pay.exitCode # 0 =>
                \A c \in CallIds : calls[c].pc = "idle" => calls'[c].pc = "idle"]_vars

\* the confirmed-page call has spent its budget and main has ended with exit
\* code 1; the mempool call is in its third attempt
C36_Witness ==
    /\ pay.pc = "exit"
    /\ pay.exitCode = 1
    /\ CausesOf(pay, "confirmed") = {"fetch"}
    /\ pay.mem = "pending"
    /\ calls["getAddressMempoolTxs"].pc = "inflight"
    /\ calls["getAddressMempoolTxs"].attempt = 3
    /\ pay.out = <<>>

\* the step main's history got in this step, if any
Noted(before, after, step, cause) ==
    /\ Len(after.trail) = Len(before.trail) + 1
    /\ after.trail[Len(after.trail)] = [step |-> step, cause |-> cause]

\* C37: getAddressMempoolTxs always returns a list and sets no exit code:
\* the empty list when its fetch threw, which happens with the whole budget
\* spent, and when the body that came was no array or no JSON; a body of
\* that kind on the confirmed endpoint makes getAddressTxs throw, and main
\* ends with exit code 1 and no result.
C37_MempoolNeverFails ==
    [][/\ pay'.mem \in {"none", "pending", "ok"}
       /\ Noted(pay, pay', "mempool", "fetch") =>
             /\ calls["getAddressMempoolTxs"].pc = "threw"
             /\ calls["getAddressMempoolTxs"].attempt = DEFAULT_RETRIES
             /\ pay'.mem = "ok"
             /\ pay'.mempool = <<>>
             /\ pay'.exitCode = pay.exitCode
             /\ pay'.pc = pay.pc
       /\ Noted(pay, pay', "mempool", "body") =>
             /\ calls["getAddressMempoolTxs"].pc = "returned"
             /\ pay'.mem = "ok"
             /\ pay'.mempool = <<>>
             /\ pay'.exitCode = pay.exitCode
             /\ pay'.pc = pay.pc
       /\ Noted(pay, pay', "confirmed", "body") =>
             /\ calls["getAddressTxs"].pc = "returned"
             /\ pay'.conf = "failed"
             /\ pay'.pc = "exit"
             /\ pay'.exitCode = 1
             /\ pay'.out = <<>>
       /\ (pay'.out # <<>> /\ Failed(pay', "mempool")) =>
             /\ pay'.exitCode = 0
             /\ PaidTxids(pay'.out[1]) \subseteq TxidsOf(pay'.confirmed)]_vars

\* the mempool body was no array, the confirmed page paid the address: the
\* result is written from the confirmed page and the exit code is 0
C37_Witness ==
    /\ CausesOf(pay, "mempool") = {"body"}
    /\ pay.mem = "ok"
    /\ pay.mempool = <<>>
    /\ pay.pc = "exit"
    /\ pay.exitCode = 0
    /\ Len(pay.out) = 1
    /\ pay.out[1].payments # <<>>

\* C38: called with the same budget and meeting the same outcomes attempt
\* by attempt, the fetchWithRetry of the chain-read client and that of the
\* payment checker issue the same attempts, sleep the same backoffs in the
\* same order, and end alike: the same response, or the same error thrown.
C38_SameRetryLoop ==
    calc.fn = "fetchWithRetry" =>
        /\ calc.chain.log = calc.pay.log
        /\ calc.chain.attempt = calc.pay.attempt
        /\ Len(AttemptsOf(calc.chain.log)) = Len(AttemptsOf(calc.pay.log))
        /\ calc.chain.pc = calc.pay.pc
        /\ calc.chain.status = calc.pay.status
        /\ calc.chain.err = calc.pay.err
        /\ calc.chain.outs = calc.pay.outs
        /\ calc.chain.timer = calc.pay.timer

\* budget 3: a timeout, a 404 and a 200; both copies sleep 200 and 400 and
\* return the third response
C38_Witness ==
    /\ calc.fn = "fetchWithRetry"
    /\ calc.retries = 3
    /\ calc.outcomes = <<[kind |-> "abort", status |-> NoStatus],
                         [kind |-> "response", status |-> 404],
                         [kind |-> "response", status |-> 200]>>
    /\ calc.pay.pc = "returned"
    /\ calc.pay.status = 200
    /\ calc.pay.log = <<AttemptEv(1), SleepEv(200), AttemptEv(2), SleepEv(400),
                        AttemptEv(3)>>
    /\ calc.chain.log = calc.pay.log

\* C39: clearAll on an array of n elements emits n ValueRemoved events,
\* the k-th for index k-1 with the value that was there and the sender,
\* does not revert, and leaves the array empty, also when n is 0; an
\* addValue that comes next puts its value at index 0 of an array of
\* length 1.
C39_ClearAll ==
    [][/\ arr'.last.fn = "clearAll" =>
             /\ ~arr'.last.reverted
             /\ Len(arr'.last.logs) = Len(arr.dataArray)
             /\ \A k \in 1..Len(arr.dataArray) :
                   arr'.last.logs[k] =
                      [name |-> "ValueRemoved", value |-> arr.dataArray[k],
                       index |-> k - 1, by |-> arr'.last.sender]
             /\ arr'.dataArray = <<>>
             /\ ArrGetLength(arr') = 0
       /\ (arr.last.fn = "clearAll" /\ arr'.last.fn = "addValue") =>
             /\ arr'.dataArray = <<arr'.last.value>>
             /\ arr'.last.logs[1].index = 0]_arr

\* an array of three elements was cleared: three events, indexes 0, 1, 2
C39_Witness ==
    /\ arr.last.fn = "clearAll"
    /\ arr.dataArray = <<>>
    /\ Len(arr.last.logs) = 3
    /\ \A k \in 1..3 : arr.last.logs[k].index = k - 1

\* C40: deleteValue and deleteValueFor, whoever sends them and whatever
\* the key, do not revert, leave the key without a value and emit
\* ValueDeleted with the key, the value it had ("" when it had none) and the
\* sender; in every state getAllAddresses lists the addresses that have a
\* value, each once, in the order in which they first got one.
C40_DeleteAndListing ==
    [][/\ mp'.last.fn \in {"deleteValue", "deleteValueFor"} =>
             /\ ~mp'.last.reverted
             /\ mp'.dataMapping[mp'.last.key] = ""
             /\ ~MapHasValue(mp', mp'.last.key)
             /\ mp'.last.logs =
                   <<[name |-> "ValueDeleted", key |-> mp'.last.key,
                      value |-> mp.dataMapping[mp'.last.key], by |-> mp'.last.sender]>>
       /\ mp'.deployed =>
             /\ NoDuplicates(MapGetAllAddresses(mp'))
             /\ Range(MapGetAllAddresses(mp')) = HoldersOf(mp')
             /\ MapGetAllAddresses(mp') =
                   SelectSeq(mp'.inserted, LAMBDA a : mp'.dataMapping[a] # "")]_mp

\* owner, inserted first, has deleted its value; addr1 deletes the value of
\* addr2, which never had one: the event carries "" and addr1 alone is listed
C40_Witness ==
    /\ mp.deployed
    /\ mp.last.fn = "deleteValueFor"
    /\ mp.last.sender = "addr1"
    /\ mp.last.key = "addr2"
    /\ mp.last.logs = <<ValueDeleted("addr2", "", "addr1")>>
    /\ mp.inserted = <<"owner", "addr1">>
    /\ mp.dataMapping["owner"] = ""
    /\ MapGetAllAddresses(mp) = <<"addr1">>

====
